---- MODULE Spec2Model ----
(***************************************************************************)
(* TweetSmash multi-agent bookmark pipeline.                               *)
(*                                                                         *)
(* The module models AgentOrchestrator.process_bookmark (the four-stage    *)
(* pipeline with its two short-circuit branches, the per-stage deadline    *)
(* and the error reports) together with the ContentAnalysisAgent, whose    *)
(* relevance score decides the first branch.  Texts are sequences of       *)
(* one-character strings so that substring tests and the regular           *)
(* expressions of the classifier are computed, not assumed; scores are     *)
(* IEEE-754 doubles, kept exactly as three 20-bit limbs.                   *)
(***************************************************************************)
EXTENDS Integers, Sequences, FiniteSets, TLC

(***************************************************************************)
(* Bounds of the model.                                                    *)
(***************************************************************************)
\* longest time, in seconds, a stage that does return takes to return
MaxElapsed == 1
\* largest number of repositories the resolution stage reports
MaxRepos == 2

(***************************************************************************)
(* Python values.  None and the empty dict are records with a reserved     *)
(* field, so that they can be stored where a dict is stored; dict.get and  *)
(* "key in dict" are tests on DOMAIN.                                      *)
(***************************************************************************)
None == [py_none |-> TRUE]

IsNone(x) == "py_none" \in DOMAIN x

EmptyDict == [py_empty |-> TRUE]

IsEmptyDict(x) == "py_empty" \in DOMAIN x

HasKey(d, k) == k \in DOMAIN d

\* bool(x) of a dict or None: None and {} are falsy
Truthy(x) == ~IsNone(x) /\ ~IsEmptyDict(x)

\* the smaller of two ints
Min(a, b) == IF a < b THEN a ELSE b

\* s[:n]
head(s, n) == SubSeq(s, 1, Min(n, Len(s)))

\* the elements of a sequence
Range(q) == {q[i] : i \in 1..Len(q)}

\* l[:n] of a list, for an int n of either sign
slice_to(l, n) ==
  IF n >= 0 THEN SubSeq(l, 1, Min(n, Len(l)))
  ELSE SubSeq(l, 1, Len(l) + n)

\* the dict d with d[k] = v added or replaced
DictSet(d, k, v) ==
  IF IsEmptyDict(d) THEN (k :> v)
  ELSE [x \in (DOMAIN d) \cup {k} |-> IF x = k THEN v ELSE d[x]]

\* {**a, **b}
Merge(a, b) ==
  IF IsEmptyDict(b) THEN a
  ELSE IF IsEmptyDict(a) THEN b
  ELSE [k \in (DOMAIN a) \cup (DOMAIN b) |-> IF k \in DOMAIN b THEN b[k] ELSE a[k]]

(***************************************************************************)
(* Strings as sequences of characters.                                     *)
(***************************************************************************)
UpperChars == <<"A","B","C","D","E","F","G","H","I","J","K","L","M",
                "N","O","P","Q","R","S","T","U","V","W","X","Y","Z">>

LowerChars == <<"a","b","c","d","e","f","g","h","i","j","k","l","m",
                "n","o","p","q","r","s","t","u","v","w","x","y","z">>

DigitChars == {"0","1","2","3","4","5","6","7","8","9"}

\* \s of the re module, restricted to the characters texts are made of
Whitespace == {" ", "\t", "\n"}

\* [a-zA-Z0-9_-]
NameChars ==
  {UpperChars[i] : i \in 1..26} \cup {LowerChars[i] : i \in 1..26}
    \cup DigitChars \cup {"_", "-"}

\* [a-zA-Z0-9_.-]
RepoChars == NameChars \cup {"."}

\* str.lower() on one character
lower_char(c) ==
  IF \E i \in 1..26 : UpperChars[i] = c
    THEN LowerChars[CHOOSE i \in 1..26 : UpperChars[i] = c]
    ELSE c

\* str.lower()
lower(s) == [i \in 1..Len(s) |-> lower_char(s[i])]

\* str.upper() on one character
upper_char(c) ==
  IF \E i \in 1..26 : LowerChars[i] = c
    THEN UpperChars[CHOOSE i \in 1..26 : LowerChars[i] = c]
    ELSE c

\* the character is a letter
is_cased(c) == \E i \in 1..26 : LowerChars[i] = c \/ UpperChars[i] = c

\* str.title(): a letter that follows no letter is put in upper case, every
\* other letter in lower case
title(s) ==
  [i \in 1..Len(s) |->
     IF i = 1 \/ ~is_cased(s[i - 1]) THEN upper_char(s[i]) ELSE lower_char(s[i])]

\* None (JSON null) where a string is expected: a one-element sequence that
\* is no text, as its element is not a character
NoneStr == <<"py_none">>

IsNoneStr(x) == x = NoneStr

\* s[i:] starts with lit (positions are 1-based)
starts_at(s, i, lit) ==
  /\ i + Len(lit) - 1 <= Len(s)
  /\ \A j \in 1..Len(lit) : s[i + j - 1] = lit[j]

\* str.startswith
startswith(s, lit) == starts_at(s, 1, lit)

\* "lit in s"
contains(s, lit) == \E i \in 1..(Len(s) - Len(lit) + 1) : starts_at(s, i, lit)

\* length of the longest run of characters of class at s[i:], what a greedy
\* [class]* consumes
RECURSIVE run_len(_, _, _)
run_len(s, i, class) ==
  IF i <= Len(s) /\ s[i] \in class THEN 1 + run_len(s, i + 1, class) ELSE 0

\* the list without its repeated entries, first occurrences kept in order
RECURSIVE dedup(_)
dedup(l) ==
  IF l = <<>> THEN <<>>
  ELSE LET front == dedup(SubSeq(l, 1, Len(l) - 1))
           last  == l[Len(l)]
       IN  IF \E i \in 1..Len(front) : front[i] = last
             THEN front ELSE Append(front, last)

(***************************************************************************)
(* IEEE-754 binary64 arithmetic on the values the scores take.  A double   *)
(* x in [0, 8) is the triple <<h, m, l>> with                              *)
(*     x = (h * 2^40 + m * 2^20 + l) * 2^-56,   0 <= m, l < 2^20.          *)
(* Every double >= 2^-4 in that range is a whole number of such units, and *)
(* sums and products are rounded to 53 significant bits, ties to even.     *)
(***************************************************************************)
Limb == 1048576

\* carries propagated, limbs brought back below 2^20
f_norm(t) ==
  LET l  == t[3] % Limb
      m0 == t[2] + (t[3] \div Limb)
      m  == m0 % Limb
      h  == t[1] + (m0 \div Limb)
  IN  <<h, m, l>>

\* the number of units in one ulp of the binade the exact value t lies in
f_ulp(t) ==
  IF t[1] >= 262144 THEN 64
  ELSE IF t[1] >= 131072 THEN 32
  ELSE IF t[1] >= 65536 THEN 16
  ELSE IF t[1] >= 32768 THEN 8
  ELSE IF t[1] >= 16384 THEN 4
  ELSE IF t[1] >= 8192 THEN 2
  ELSE 1

\* round-to-nearest, ties-to-even, of the exact value t
f_round(t) ==
  LET u    == f_ulp(t)
      r    == t[3] % u
      base == t[3] - r
      up   == \/ 2 * r > u
              \/ 2 * r = u /\ (base \div u) % 2 = 1
  IN  f_norm(<<t[1], t[2], IF up THEN base + u ELSE base>>)

\* x + y
f_add(x, y) == f_round(f_norm(<<x[1] + y[1], x[2] + y[2], x[3] + y[3]>>))

\* n * x for an int n
f_mul_int(n, x) == f_round(f_norm(f_norm(<<n * x[1], n * x[2], n * x[3]>>)))

\* n / d for ints n >= 0 and d > 0 (true division), for a quotient that is
\* 0 or lies in [2^-4, 8): the quotient is developed in binary digit by
\* digit, and what is left over decides the rounding
f_div_int(n, d) ==
  LET h   == (n \div d) * 65536 + ((n % d) * 65536) \div d
      r0  == ((n % d) * 65536) % d
      m1  == (r0 * 1024) \div d
      r1  == (r0 * 1024) % d
      m2  == (r1 * 1024) \div d
      r2  == (r1 * 1024) % d
      l1  == (r2 * 1024) \div d
      r3  == (r2 * 1024) % d
      l2  == (r3 * 1024) \div d
      r4  == (r3 * 1024) % d
      l   == l1 * 1024 + l2
      t   == <<h, m1 * 1024 + m2, l>>
      u   == f_ulp(t)
      low == l % u
      base == l - low
      up  == \/ 2 * low > u
             \/ 2 * low = u /\ r4 > 0
             \/ 2 * low = u /\ r4 = 0 /\ (base \div u) % 2 = 1
             \/ u = 1 /\ 2 * r4 > d
             \/ u = 1 /\ 2 * r4 = d /\ l % 2 = 1
  IN  f_norm(<<h, m1 * 1024 + m2, IF up THEN base + u ELSE base>>)

\* x < y
f_lt(x, y) ==
  \/ x[1] < y[1]
  \/ x[1] = y[1] /\ x[2] < y[2]
  \/ x[1] = y[1] /\ x[2] = y[2] /\ x[3] < y[3]

\* x > y
f_gt(x, y) == f_lt(y, x)

\* min(x, y)
f_min(x, y) == IF f_lt(y, x) THEN y ELSE x

\* the literals 0.0, 0.1, 0.15, 0.2, 0.3, 0.4, 0.5, 0.6, 0.7, 0.8, 0.9 and 1.0
F0_0 == <<0, 0, 0>>

F0_1 == <<6553, 629145, 629146>>

F0_15 == <<9830, 419430, 419430>>

F0_2 == <<13107, 209715, 209716>>

F0_3 == <<19660, 838860, 838860>>

F0_4 == <<26214, 419430, 419432>>

F0_5 == <<32768, 0, 0>>

F0_6 == <<39321, 629145, 629144>>

F0_7 == <<45875, 209715, 209712>>

F0_8 == <<52428, 838860, 838864>>

F0_9 == <<58982, 419430, 419432>>

F1_0 == <<65536, 0, 0>>

(***************************************************************************)
(* The texts bookmarks are drawn from.                                     *)
(***************************************************************************)
\* 'Beautiful sunset today!'
TextSunset == <<"B", "e", "a", "u", "t", "i", "f", "u", "l", " ", "s", "u", "n", "s", "e", "t", " ", "t", "o", "d", "a", "y", "!">>

\* 'We launched it! Check out what we built'
TextAnnounce == <<"W", "e", " ", "l", "a", "u", "n", "c", "h", "e", "d", " ", "i", "t", "!", " ", "C", "h", "e", "c", "k", " ", "o", "u", "t", " ", "w", "h", "a", "t", " ", "w", "e", " ", "b", "u", "i", "l", "t">>

\* 'I love github'
TextGithubWord == <<"I", " ", "l", "o", "v", "e", " ", "g", "i", "t", "h", "u", "b">>

\* 'https://github.com/foo/bar'
TextUrl == <<"h", "t", "t", "p", "s", ":", "/", "/", "g", "i", "t", "h", "u", "b", ".", "c", "o", "m", "/", "f", "o", "o", "/", "b", "a", "r">>

\* 'Just built an awesome Python CLI tool! github.com/user/awesome-tool'
TextEndToEnd == <<"J", "u", "s", "t", " ", "b", "u", "i", "l", "t", " ", "a", "n", " ", "a", "w", "e", "s", "o", "m", "e", " ", "P", "y", "t", "h", "o", "n", " ", "C", "L", "I", " ", "t", "o", "o", "l", "!", " ", "g", "i", "t", "h", "u", "b", ".", "c", "o", "m", "/", "u", "s", "e", "r", "/", "a", "w", "e", "s", "o", "m", "e", "-", "t", "o", "o", "l">>

\* ''
TextEmpty == <<>>

\* 'python django sql'
TextKeywords == <<"p", "y", "t", "h", "o", "n", " ", "d", "j", "a", "n", "g", "o", " ", "s", "q", "l">>

\* 'see http://github.com/foo/bar and github.com/foo/bar'
TextTwoSchemes == <<"s", "e", "e", " ", "h", "t", "t", "p", ":", "/", "/", "g", "i", "t", "h", "u", "b", ".", "c", "o", "m", "/", "f", "o", "o", "/", "b", "a", "r", " ", "a", "n", "d", " ", "g", "i", "t", "h", "u", "b", ".", "c", "o", "m", "/", "f", "o", "o", "/", "b", "a", "r">>

\* '@alice built this'
TextMention == <<"@", "a", "l", "i", "c", "e", " ", "b", "u", "i", "l", "t", " ", "t", "h", "i", "s">>

\* '@alice made a python cli'
TextUserMention == <<"@", "a", "l", "i", "c", "e", " ", "m", "a", "d", "e", " ", "a", " ", "p", "y", "t", "h", "o", "n", " ", "c", "l", "i">>

Texts == {TextSunset, TextAnnounce, TextGithubWord, TextUrl, TextEndToEnd, TextEmpty, TextKeywords, TextTwoSchemes, TextMention}

\* ContentAnalysisAgent._extract_code_keywords: the keyword table
code_keywords ==
  << <<"p", "y", "t", "h", "o", "n">>,
     <<"j", "a", "v", "a", "s", "c", "r", "i", "p", "t">>,
     <<"t", "y", "p", "e", "s", "c", "r", "i", "p", "t">>,
     <<"j", "a", "v", "a">>,
     <<"c", "+", "+">>,
     <<"c", "#">>,
     <<"g", "o">>,
     <<"r", "u", "s", "t">>,
     <<"p", "h", "p">>,
     <<"r", "u", "b", "y">>,
     <<"s", "w", "i", "f", "t">>,
     <<"k", "o", "t", "l", "i", "n">>,
     <<"s", "c", "a", "l", "a">>,
     <<"c", "l", "o", "j", "u", "r", "e">>,
     <<"h", "a", "s", "k", "e", "l", "l">>,
     <<"e", "l", "i", "x", "i", "r">>,
     <<"d", "a", "r", "t">>,
     <<"r">>,
     <<"m", "a", "t", "l", "a", "b">>,
     <<"r", "e", "a", "c", "t">>,
     <<"v", "u", "e">>,
     <<"a", "n", "g", "u", "l", "a", "r">>,
     <<"d", "j", "a", "n", "g", "o">>,
     <<"f", "l", "a", "s", "k">>,
     <<"e", "x", "p", "r", "e", "s", "s">>,
     <<"f", "a", "s", "t", "a", "p", "i">>,
     <<"s", "p", "r", "i", "n", "g">>,
     <<"r", "a", "i", "l", "s">>,
     <<"p", "y", "t", "o", "r", "c", "h">>,
     <<"t", "e", "n", "s", "o", "r", "f", "l", "o", "w">>,
     <<"p", "a", "n", "d", "a", "s">>,
     <<"n", "u", "m", "p", "y">>,
     <<"o", "p", "e", "n", "c", "v">>,
     <<"s", "c", "i", "k", "i", "t", "-", "l", "e", "a", "r", "n">>,
     <<"a", "p", "i">>,
     <<"d", "a", "t", "a", "b", "a", "s", "e">>,
     <<"s", "q", "l">>,
     <<"n", "o", "s", "q", "l">>,
     <<"m", "o", "n", "g", "o", "d", "b">>,
     <<"p", "o", "s", "t", "g", "r", "e", "s", "q", "l">>,
     <<"r", "e", "d", "i", "s">>,
     <<"d", "o", "c", "k", "e", "r">>,
     <<"k", "u", "b", "e", "r", "n", "e", "t", "e", "s">>,
     <<"a", "w", "s">>,
     <<"a", "z", "u", "r", "e">>,
     <<"g", "c", "p">>,
     <<"s", "e", "r", "v", "e", "r", "l", "e", "s", "s">>,
     <<"m", "i", "c", "r", "o", "s", "e", "r", "v", "i", "c", "e", "s">>,
     <<"g", "r", "a", "p", "h", "q", "l">>,
     <<"r", "e", "s", "t">>,
     <<"a", "l", "g", "o", "r", "i", "t", "h", "m">>,
     <<"d", "a", "t", "a", " ", "s", "t", "r", "u", "c", "t", "u", "r", "e">>,
     <<"m", "a", "c", "h", "i", "n", "e", " ", "l", "e", "a", "r", "n", "i", "n", "g">>,
     <<"a", "i">>,
     <<"b", "l", "o", "c", "k", "c", "h", "a", "i", "n">>,
     <<"w", "e", "b", "3">>,
     <<"n", "f", "t">>,
     <<"f", "r", "o", "n", "t", "e", "n", "d">>,
     <<"b", "a", "c", "k", "e", "n", "d">>,
     <<"f", "u", "l", "l", "s", "t", "a", "c", "k">>,
     <<"d", "e", "v", "o", "p", "s">>,
     <<"c", "i", "/", "c", "d">>,
     <<"t", "e", "s", "t", "i", "n", "g">>,
     <<"d", "e", "p", "l", "o", "y", "m", "e", "n", "t">> >>

(***************************************************************************)
(* ContentAnalysisAgent (agents/content_analysis_agent.py).                *)
(***************************************************************************)
\* length of the longest run of characters outside class at s[i:]: [^class]*
RECURSIVE run_len_not(_, _, _)
run_len_not(s, i, class) ==
  IF i <= Len(s) /\ s[i] \notin class THEN 1 + run_len_not(s, i + 1, class) ELSE 0

\* where "$" matches: at the end of the string and before a final newline
dollar(s, i) == i > Len(s) \/ (i = Len(s) /\ s[i] = "\n")

\* the three patterns of _extract_github_urls, each as the literal prefixes
\* "https?://..." stands for; [^\s]+ follows
github_url_patterns ==
  << {<<"h", "t", "t", "p", "s", ":", "/", "/", "g", "i", "t", "h", "u", "b", ".", "c", "o", "m", "/">>, <<"h", "t", "t", "p", ":", "/", "/", "g", "i", "t", "h", "u", "b", ".", "c", "o", "m", "/">>},
     {<<"h", "t", "t", "p", "s", ":", "/", "/", "r", "a", "w", ".", "g", "i", "t", "h", "u", "b", "u", "s", "e", "r", "c", "o", "n", "t", "e", "n", "t", ".", "c", "o", "m", "/">>, <<"h", "t", "t", "p", ":", "/", "/", "r", "a", "w", ".", "g", "i", "t", "h", "u", "b", "u", "s", "e", "r", "c", "o", "n", "t", "e", "n", "t", ".", "c", "o", "m", "/">>},
     {<<"g", "i", "t", "h", "u", "b", ".", "c", "o", "m", "/">>} >>

\* one attempt of a URL pattern at position i, re.IGNORECASE (lt is the
\* lowered text): the position after the match, or 0 when there is none
url_match_at(text, lt, i, prefixes) ==
  LET ok == {p \in prefixes :
               /\ starts_at(lt, i, p)
               /\ run_len_not(text, i + Len(p), Whitespace) >= 1}
  IN  IF ok = {} THEN 0
      ELSE LET p == CHOOSE q \in ok : TRUE
           IN  i + Len(p) + run_len_not(text, i + Len(p), Whitespace)

\* re.findall(pattern, text, re.IGNORECASE) from position i on
RECURSIVE findall_url(_, _, _, _)
findall_url(text, lt, i, prefixes) ==
  IF i > Len(text) THEN <<>>
  ELSE LET stop == url_match_at(text, lt, i, prefixes)
       IN  IF stop = 0 THEN findall_url(text, lt, i + 1, prefixes)
           ELSE <<SubSeq(text, i, stop - 1)>> \o findall_url(text, lt, stop, prefixes)

\* the cleaning step of _extract_github_urls: the scheme is added when the
\* match does not start with "http"
clean_url(url) == IF ~startswith(url, <<"h", "t", "t", "p">>) THEN <<"h", "t", "t", "p", "s", ":", "/", "/">> \o url ELSE url

\* an extraction that takes a URL only when it is written with its scheme
extract_github_urls_with_scheme(text) ==
  LET lt   == lower(text)
      urls == findall_url(text, lt, 1, github_url_patterns[1])
                \o findall_url(text, lt, 1, github_url_patterns[2])
  IN  dedup([i \in 1..Len(urls) |-> clean_url(urls[i])])

\* ContentAnalysisAgent._extract_github_urls
extract_github_urls(text) ==
  LET lt   == lower(text)
      urls == findall_url(text, lt, 1, github_url_patterns[1])
                \o findall_url(text, lt, 1, github_url_patterns[2])
                \o findall_url(text, lt, 1, github_url_patterns[3])
  IN  dedup([i \in 1..Len(urls) |-> clean_url(urls[i])])

\* "([a-zA-Z0-9_-]+)/([a-zA-Z0-9_.-]+)" tried at position i: <<>> when it
\* fails, else <<position after the match, owner, repo>>.  "/" is in neither
\* class, so both groups take their longest run and nothing is gained by
\* backtracking.
owner_repo_at(text, i) ==
  LET n1 == run_len(text, i, NameChars)
      s  == i + n1
      n2 == run_len(text, s + 1, RepoChars)
  IN  IF n1 >= 1 /\ s <= Len(text) /\ text[s] = "/" /\ n2 >= 1
        THEN <<s + 1 + n2, SubSeq(text, i, s - 1), SubSeq(text, s + 1, s + n2)>>
        ELSE <<>>

\* one attempt of a repository pattern of _extract_github_mentions at i
repo_match_at(pattern, text, i) ==
  CASE pattern = 1 ->
         \* @([a-zA-Z0-9_-]+)/([a-zA-Z0-9_.-]+)
         IF text[i] = "@" THEN owner_repo_at(text, i + 1) ELSE <<>>
    [] pattern = 2 ->
         \* ([a-zA-Z0-9_-]+)/([a-zA-Z0-9_.-]+)(?:\s|$)
         LET m == owner_repo_at(text, i)
         IN  IF m = <<>> THEN <<>>
             ELSE IF m[1] <= Len(text) /\ text[m[1]] \in Whitespace
               THEN <<m[1] + 1, m[2], m[3]>>
             ELSE IF dollar(text, m[1]) THEN m
             ELSE <<>>
    [] pattern = 3 ->
         \* repo:?\s*([a-zA-Z0-9_-]+)/([a-zA-Z0-9_.-]+)
         IF starts_at(text, i, <<"r", "e", "p", "o">>)
           THEN LET j == IF i + 4 <= Len(text) /\ text[i + 4] = ":"
                           THEN i + 5 ELSE i + 4
                    k == j + run_len(text, j, Whitespace)
                IN  owner_repo_at(text, k)
           ELSE <<>>

\* re.findall of a repository pattern from position i on: the list of
\* (owner, repo) group pairs
RECURSIVE findall_repo(_, _, _)
findall_repo(pattern, text, i) ==
  IF i > Len(text) THEN <<>>
  ELSE LET m == repo_match_at(pattern, text, i)
       IN  IF m = <<>> THEN findall_repo(pattern, text, i + 1)
           ELSE << <<m[2], m[3]>> >> \o findall_repo(pattern, text, m[1])

\* one attempt of a username pattern at i: <<>> or <<position after, name>>
user_match_at(pattern, text, i) ==
  CASE pattern = 1 ->
         \* @([a-zA-Z0-9_-]+)(?:\s|$)
         LET n == run_len(text, i + 1, NameChars)
             e == i + 1 + n
         IN  IF text[i] = "@" /\ n >= 1
               THEN IF e <= Len(text) /\ text[e] \in Whitespace
                      THEN <<e + 1, SubSeq(text, i + 1, e - 1)>>
                    ELSE IF dollar(text, e) THEN <<e, SubSeq(text, i + 1, e - 1)>>
                    ELSE <<>>
               ELSE <<>>
    [] pattern = 2 ->
         \* github\.com/([a-zA-Z0-9_-]+)(?:/|$)
         LET b == i + 11
             n == run_len(text, b, NameChars)
             e == b + n
         IN  IF starts_at(text, i, <<"g", "i", "t", "h", "u", "b", ".", "c", "o", "m", "/">>) /\ n >= 1
               THEN IF e <= Len(text) /\ text[e] = "/"
                      THEN <<e + 1, SubSeq(text, b, e - 1)>>
                    ELSE IF dollar(text, e) THEN <<e, SubSeq(text, b, e - 1)>>
                    ELSE <<>>
               ELSE <<>>

\* re.findall of a username pattern from position i on
RECURSIVE findall_user(_, _, _)
findall_user(pattern, text, i) ==
  IF i > Len(text) THEN <<>>
  ELSE LET m == user_match_at(pattern, text, i)
       IN  IF m = <<>> THEN findall_user(pattern, text, i + 1)
           ELSE <<m[2]>> \o findall_user(pattern, text, m[1])

\* the elements of l that satisfy keep, in order
RECURSIVE select_repo_matches(_)
select_repo_matches(l) ==
  IF l = <<>> THEN <<>>
  ELSE LET match == Head(l)
           rest  == select_repo_matches(Tail(l))
       IN  IF Len(match) = 2 /\ Len(match[1]) > 2 /\ Len(match[2]) > 2
             THEN <<[type |-> "repository", owner |-> match[1], repo |-> match[2],
                     full_name |-> match[1] \o <<"/">> \o match[2]]>> \o rest
             ELSE rest

RECURSIVE select_user_matches(_)
select_user_matches(l) ==
  IF l = <<>> THEN <<>>
  ELSE LET match == Head(l)
           rest  == select_user_matches(Tail(l))
       IN  IF Len(match) > 2
             THEN <<[type |-> "user", username |-> match]>> \o rest
             ELSE rest

\* ContentAnalysisAgent._extract_github_mentions
extract_github_mentions(text) ==
  select_repo_matches(findall_repo(1, text, 1))
    \o select_repo_matches(findall_repo(2, text, 1))
    \o select_repo_matches(findall_repo(3, text, 1))
    \o select_user_matches(findall_user(1, text, 1))
    \o select_user_matches(findall_user(2, text, 1))

\* any(word in text_lower for word in words)
any_in(words, text_lower) == \E i \in 1..Len(words) : contains(text_lower, words[i])

\* ContentAnalysisAgent._basic_content_analysis: the content type
basic_content_type(text_lower) ==
  IF any_in(<<<<"r", "e", "l", "e", "a", "s", "e", "d">>, <<"l", "a", "u", "n", "c", "h", "e", "d">>, <<"a", "n", "n", "o", "u", "n", "c", "i", "n", "g">>, <<"n", "e", "w", " ", "p", "r", "o", "j", "e", "c", "t">>>>, text_lower)
    THEN <<"p", "r", "o", "j", "e", "c", "t", "_", "a", "n", "n", "o", "u", "n", "c", "e", "m", "e", "n", "t">>
  ELSE IF any_in(<<<<"t", "u", "t", "o", "r", "i", "a", "l">>, <<"h", "o", "w", " ", "t", "o">>, <<"g", "u", "i", "d", "e">>, <<"l", "e", "a", "r", "n">>>>, text_lower)
    THEN <<"t", "u", "t", "o", "r", "i", "a", "l">>
  ELSE IF any_in(<<<<"c", "o", "d", "e">>, <<"s", "n", "i", "p", "p", "e", "t">>, <<"f", "u", "n", "c", "t", "i", "o", "n">>, <<"c", "l", "a", "s", "s">>>>, text_lower)
    THEN <<"c", "o", "d", "e", "_", "s", "h", "a", "r", "i", "n", "g">>
  ELSE IF any_in(<<<<"b", "u", "i", "l", "t">>, <<"c", "r", "e", "a", "t", "e", "d">>, <<"m", "a", "d", "e">>, <<"c", "h", "e", "c", "k", " ", "o", "u", "t">>>>, text_lower)
    THEN <<"s", "h", "o", "w", "c", "a", "s", "e">>
  ELSE <<"o", "t", "h", "e", "r">>

\* content_type.replace('_', ' ')
spaced(content_type) ==
  [i \in 1..Len(content_type) |-> IF content_type[i] = "_" THEN " " ELSE content_type[i]]

\* ContentAnalysisAgent._basic_content_analysis
basic_content_analysis(text) ==
  LET text_lower   == lower(text)
      content_type == basic_content_type(text_lower)
  IN  [type |-> content_type,
       context |-> <<"T", "w", "e", "e", "t", " ", "a", "p", "p", "e", "a", "r", "s", " ", "t", "o", " ", "b", "e", " ", "a", "b", "o", "u", "t", " ">> \o spaced(content_type),
       github_likelihood |->
         IF any_in(<<<<"c", "o", "d", "e">>, <<"r", "e", "p", "o">>, <<"p", "r", "o", "j", "e", "c", "t">>, <<"g", "i", "t", "h", "u", "b">>>>, text_lower)
           THEN "0.6" ELSE "0.2"]

\* What the language model does when asked: it is not configured, the
\* query raises, the reply is not JSON, or the reply is JSON (an object
\* with the fields asked for, an object without them, or a list).
LLMReplies ==
  { [kind |-> "unavailable"],
    [kind |-> "error"],
    [kind |-> "not_json"],
    [kind |-> "json", value |-> [type |-> <<"t", "u", "t", "o", "r", "i", "a", "l">>, context |-> <<"a", " ", "g", "u", "i", "d", "e">>,
                                 github_likelihood |-> "0.5", intent |-> "teach"]],
    [kind |-> "json", value |-> [summary |-> "no such fields"]],
    [kind |-> "json", value |-> [py_list |-> TRUE]] }

\* ContentAnalysisAgent._analyze_content_type: what json.loads gives is
\* returned as it is
analyze_content_type(text, llm) ==
  IF llm.kind = "json" THEN llm.value ELSE basic_content_analysis(text)

\* the keywords of the table that occur in text_lower, in table order
RECURSIVE found_keywords(_, _)
found_keywords(text_lower, i) ==
  IF i > Len(code_keywords) THEN <<>>
  ELSE (IF contains(text_lower, code_keywords[i]) THEN <<code_keywords[i]>> ELSE <<>>)
         \o found_keywords(text_lower, i + 1)

\* ContentAnalysisAgent._extract_code_keywords
extract_code_keywords(text) == found_keywords(lower(text), 1)

\* re.search(pattern, tweet_text, re.IGNORECASE) for the three patterns of
\* _infer_author_github, lt being the lowered text
my_repo_search(pattern, lt) ==
  \E i \in 1..Len(lt) :
    CASE pattern = 1 ->
           \* my\s+(?:repo|project|code)
           LET w == run_len(lt, i + 2, Whitespace)
           IN  /\ starts_at(lt, i, <<"m", "y">>) /\ w >= 1
               /\ \E t \in {<<"r", "e", "p", "o">>, <<"p", "r", "o", "j", "e", "c", "t">>, <<"c", "o", "d", "e">>} : starts_at(lt, i + 2 + w, t)
      [] pattern = 2 ->
           \* I\s+(?:built|created|made)
           LET w == run_len(lt, i + 1, Whitespace)
           IN  /\ starts_at(lt, i, <<"i">>) /\ w >= 1
               /\ \E t \in {<<"b", "u", "i", "l", "t">>, <<"c", "r", "e", "a", "t", "e", "d">>, <<"m", "a", "d", "e">>} : starts_at(lt, i + 1 + w, t)
      [] pattern = 3 ->
           \* check\s+out\s+my
           LET w1 == run_len(lt, i + 5, Whitespace)
               w2 == run_len(lt, i + 5 + w1 + 3, Whitespace)
           IN  /\ starts_at(lt, i, <<"c", "h", "e", "c", "k">>) /\ w1 >= 1
               /\ starts_at(lt, i + 5 + w1, <<"o", "u", "t">>) /\ w2 >= 1
               /\ starts_at(lt, i + 5 + w1 + 3 + w2, <<"m", "y">>)

\* dict.get(key, default)
get(d, k, default) == IF HasKey(d, k) THEN d[k] ELSE default

\* ContentAnalysisAgent._infer_author_github
infer_author_github(author_details, tweet_text) ==
  LET username == get(author_details, "username", <<>>)
      n        == run_len(username, 1, NameChars)
  IN  IF n >= 1 /\ dollar(username, n + 1) /\ Len(username) > 2 THEN username
      ELSE IF \E p \in 1..3 : my_repo_search(p, lower(tweet_text)) THEN username
      ELSE <<>>

\* score with 'inc' added once for every term of terms[i..] found in the text
RECURSIVE add_terms(_, _, _, _, _)
add_terms(score, terms, i, text_lower, inc) ==
  IF i > Len(terms) THEN score
  ELSE add_terms(IF contains(text_lower, terms[i]) THEN f_add(score, inc) ELSE score,
                 terms, i + 1, text_lower, inc)

code_terms == <<<<"r", "e", "p", "o">>, <<"r", "e", "p", "o", "s", "i", "t", "o", "r", "y">>, <<"c", "o", "d", "e">>, <<"p", "r", "o", "j", "e", "c", "t">>, <<"o", "p", "e", "n", " ", "s", "o", "u", "r", "c", "e">>>>

announcement_terms == <<<<"r", "e", "l", "e", "a", "s", "e", "d">>, <<"l", "a", "u", "n", "c", "h", "e", "d">>, <<"b", "u", "i", "l", "t">>, <<"c", "r", "e", "a", "t", "e", "d">>, <<"c", "h", "e", "c", "k", " ", "o", "u", "t">>>>

\* ContentAnalysisAgent._calculate_github_relevance
calculate_github_relevance(text, direct_urls, mentions, keywords) ==
  LET text_lower == lower(text)
      s1 == IF direct_urls # <<>> THEN f_add(F0_0, F0_8) ELSE F0_0
      s2 == IF mentions # <<>> THEN f_add(s1, F0_6) ELSE s1
      s3 == f_add(s2, f_min(f_mul_int(Len(keywords), F0_1), F0_4))
      s4 == IF contains(text_lower, <<"g", "i", "t", "h", "u", "b">>) THEN f_add(s3, F0_3) ELSE s3
      s5 == add_terms(s4, code_terms, 1, text_lower, F0_1)
      s6 == add_terms(s5, announcement_terms, 1, text_lower, F0_15)
  IN  f_min(s6, F1_0)

\* the thresholds taken inclusively
determine_priority_inclusive(relevance_score, direct_urls) ==
  IF direct_urls # <<>> THEN "high"
  ELSE IF ~f_lt(relevance_score, F0_7) THEN "high"
  ELSE IF ~f_lt(relevance_score, F0_4) THEN "medium"
  ELSE "low"

\* ContentAnalysisAgent._determine_priority
determine_priority(relevance_score, direct_urls) ==
  IF direct_urls # <<>> THEN "high"
  ELSE IF f_gt(relevance_score, F0_7) THEN "high"
  ELSE IF f_gt(relevance_score, F0_4) THEN "medium"
  ELSE "low"

\* BaseAgent.create_result: data and error are stored only when truthy
create_result(agent_name, success, data, error, now) ==
  LET base == [success |-> success, agent |-> agent_name, timestamp |-> now]
      d    == IF Truthy(data) THEN DictSet(base, "data", data) ELSE base
  IN  IF error # "" THEN DictSet(d, "error", error) ELSE d

\* ContentAnalysisAgent.process
content_analysis_process(input_data, llm, now) ==
  LET bookmark == get(input_data, "bookmark", EmptyDict)
      given    == get(input_data, "tweet_text", <<>>)
      tweet_text ==
        IF given # <<>> THEN given
        ELSE get(get(bookmark, "tweet_details", EmptyDict), "text", <<>>)
      given_author == get(input_data, "author_details", EmptyDict)
      author_details ==
        IF Truthy(given_author) THEN given_author
        ELSE get(bookmark, "author_details", EmptyDict)
      direct_urls      == extract_github_urls(tweet_text)
      github_mentions  == extract_github_mentions(tweet_text)
      content_analysis == analyze_content_type(tweet_text, llm)
      code_kw          == extract_code_keywords(tweet_text)
      author_github    == infer_author_github(author_details, tweet_text)
      github_relevance_score ==
        calculate_github_relevance(tweet_text, direct_urls, github_mentions, code_kw)
      analysis_data ==
        [tweet_text |-> tweet_text,
         author_details |-> author_details,
         direct_github_urls |-> direct_urls,
         github_mentions |-> github_mentions,
         content_type |-> get(content_analysis, "type", NoneStr),
         content_context |-> get(content_analysis, "context", NoneStr),
         code_keywords |-> code_kw,
         author_github_candidate |-> author_github,
         github_relevance_score |-> github_relevance_score,
         requires_github_discovery |->
           f_gt(github_relevance_score, F0_3) /\ Len(direct_urls) = 0,
         processing_priority |-> determine_priority(github_relevance_score, direct_urls)]
  IN  IF tweet_text = <<>>
        THEN create_result("ContentAnalysisAgent", FALSE, None, "No tweet text provided", now)
      ELSE IF HasKey(content_analysis, "py_list")
        \* list.get raises AttributeError, caught by the handler of process
        THEN create_result("ContentAnalysisAgent", FALSE, None,
                           "'list' object has no attribute 'get'", now)
      ELSE create_result("ContentAnalysisAgent", TRUE, analysis_data, "", now)

(***************************************************************************)
(* The hosting collaborator (the GitHub REST API behind github_client) and *)
(* the resolver, GitHubDiscoveryAgent.                                     *)
(***************************************************************************)
\* the largest number of a request that may fail in transit
MaxCalls == 4

\* seconds in a day, and the day number of the instant 0 of the clock
SecondsPerDay == 86400

StartDay == 20000

\* datetime.now(timezone.utc), as a day number
today_of(now) == StartDay + (now \div SecondsPerDay)

\* a timestamp of the API ('2024-01-01T12:00:00Z') by its day number
Timestamp(day) == [day |-> day]

\* a + "/" + b
slash(a, b) == a \o <<"/">> \o b

\* The repository objects of the catalogue, without the fields naming them:
\* a small active Python tool, a repository with neither description nor
\* language nor wiki (null in the API's JSON), a large and popular one that
\* has not been pushed to for a long time, and a popular active one with no
\* word of the tweets in its description.
Profiles ==
  [tool |->
     [description |-> <<"A", " ", "P", "y", "t", "h", "o", "n", " ", "C", "L", "I", " ", "t", "o", "o", "l">>, language |-> <<"P", "y", "t", "h", "o", "n">>,
      stargazers_count |-> 150, forks_count |-> 0, size |-> 1000,
      has_wiki |-> TRUE, has_issues |-> TRUE,
      pushed_at |-> Timestamp(StartDay - 179),
      created_at |-> Timestamp(StartDay - 29)],
   bare |->
     [description |-> NoneStr, language |-> NoneStr,
      stargazers_count |-> 0, forks_count |-> 0, size |-> 0,
      has_wiki |-> FALSE, has_issues |-> FALSE,
      pushed_at |-> None, created_at |-> Timestamp(StartDay - 400)],
   server |->
     [description |-> <<"W", "e", "b", " ", "s", "e", "r", "v", "e", "r", ",", " ", "s", "e", "e", " ", "r", "e", "a", "d", "m", "e">>, language |-> <<"G", "o">>,
      stargazers_count |-> 5000, forks_count |-> 30, size |-> 4000,
      has_wiki |-> FALSE, has_issues |-> TRUE,
      pushed_at |-> Timestamp(StartDay - 400),
      created_at |-> Timestamp(StartDay - 800)],
   starred |->
     [description |-> <<"D", "o", "t", "f", "i", "l", "e", "s">>, language |-> <<"S", "h", "e", "l", "l">>,
      stargazers_count |-> 250, forks_count |-> 0, size |-> 0,
      has_wiki |-> FALSE, has_issues |-> FALSE,
      pushed_at |-> Timestamp(StartDay - 10),
      created_at |-> Timestamp(StartDay - 10)]]

\* the repository object the API returns for owner/name
RepoJson(owner, name, profile) ==
  Merge([name |-> name, full_name |-> slash(owner, name),
         owner |-> [login |-> owner],
         html_url |-> <<"h", "t", "t", "p", "s", ":", "/", "/", "g", "i", "t", "h", "u", "b", ".", "c", "o", "m", "/">> \o slash(owner, name)],
        Profiles[profile])

\* the logins the texts name, and the repository each text names for them
Logins == {<<"f", "o", "o">>, <<"u", "s", "e", "r">>, <<"a", "l", "i", "c", "e">>, <<"t", "e", "s", "t", "u", "s", "e", "r">>}

project_of(login) ==
  IF login = <<"f", "o", "o">> THEN <<"b", "a", "r">>
  ELSE IF login = <<"u", "s", "e", "r">> THEN <<"a", "w", "e", "s", "o", "m", "e", "-", "t", "o", "o", "l">>
  ELSE IF login = <<"a", "l", "i", "c", "e">> THEN <<"t", "o", "o", "l">>
  ELSE <<"c", "l", "i">>

\* What an account holds, most recently updated first: the project and
\* other repositories, by name and profile.
Holdings ==
  { <<>>,
    << <<"project", "tool">> >>,
    << <<"project", "bare">> >>,
    << <<"project", "tool">>, <<"notes", "bare">>, <<"www", "server">> >>,
    << <<"notes", "bare">>, <<"project", "tool">>, <<"www", "server">> >>,
    << <<"www", "server">>, <<"project", "tool">>, <<"notes", "bare">> >>,
    << <<"project", "tool">>, <<"fork", "tool">>, <<"dotfiles", "starred">> >>,
    << <<"dotfiles", "starred">>, <<"project", "server">>, <<"fork", "tool">> >> }

\* the name of a holding
holding_name(login, h) ==
  IF h[1] = "project" THEN project_of(login)
  ELSE IF h[1] = "notes" THEN <<"n", "o", "t", "e", "s">>
  ELSE IF h[1] = "www" THEN <<"w", "w", "w">>
  ELSE IF h[1] = "fork" THEN <<"f", "o", "r", "k">>
  ELSE <<"d", "o", "t", "f", "i", "l", "e", "s">>

\* an account: it exists or not, and its repositories
Account(login, exists, holding) ==
  [exists |-> exists,
   repos |-> [i \in 1..Min(Len(holding), MaxRepos) |->
                RepoJson(login, holding_name(login, holding[i]), holding[i][2])]]

\* the states an account can be in
AccountStates == {<<FALSE, <<>>>>} \cup {<<TRUE, h>> : h \in Holdings}

\* The hosting collaborator during one discovery: the account of the author,
\* the accounts of the other logins (alike), and the number of the request
\* that fails in transit (0: none).
Hosting(author, other, failing_call) ==
  [accounts |-> [l \in Logins |->
                   IF l = <<"t", "e", "s", "t", "u", "s", "e", "r">> THEN Account(l, author[1], author[2])
                   ELSE Account(l, other[1], other[2])],
   failing_call |-> failing_call]

\* github_client.get: the request raises, or is answered
github_get(hosting, request, call_no) ==
  IF hosting.failing_call = call_no THEN [raised |-> TRUE]
  ELSE LET login   == IF request.endpoint = "repos" THEN request.owner
                      ELSE request.username
           known   == login \in DOMAIN hosting.accounts
                      /\ hosting.accounts[login].exists
           repos   == IF known THEN hosting.accounts[login].repos ELSE <<>>
           named   == {i \in 1..Len(repos) :
                         request.endpoint = "repos" /\ repos[i].name = request.repo}
       IN  IF request.endpoint = "users"
             THEN IF known
                    THEN [raised |-> FALSE, status_code |-> 200,
                          json |-> head(repos, request.per_page)]
                    ELSE [raised |-> FALSE, status_code |-> 404, json |-> <<>>]
           ELSE IF named # {}
             THEN [raised |-> FALSE, status_code |-> 200,
                   json |-> repos[CHOOSE i \in named : \A j \in named : i <= j]]
           ELSE [raised |-> FALSE, status_code |-> 404, json |-> <<>>]

\* GitHubDiscoveryAgent._is_repository_active
is_repository_active(repo, today) ==
  LET pushed_at == get(repo, "pushed_at", None)
  IN  IF IsNone(pushed_at) THEN FALSE ELSE today - pushed_at.day < 180

\* GitHubDiscoveryAgent._is_recent_repository
is_recent_repository(repo, today) ==
  LET created_at == get(repo, "created_at", None)
  IN  IF IsNone(created_at) THEN FALSE ELSE today - created_at.day < 30

\* the number of the keywords that occur in the text
RECURSIVE keyword_matches(_, _, _)
keyword_matches(keywords, i, text) ==
  IF i > Len(keywords) THEN 0
  ELSE (IF contains(text, keywords[i]) THEN 1 ELSE 0)
       + keyword_matches(keywords, i + 1, text)

\* GitHubDiscoveryAgent._calculate_repository_relevance raises AttributeError
\* (None.lower()) for a null description or language
relevance_raises(repo) ==
  \/ IsNoneStr(get(repo, "description", <<>>))
  \/ IsNoneStr(get(repo, "language", <<>>))

\* GitHubDiscoveryAgent._calculate_repository_relevance
calculate_repository_relevance(repo, content_analysis, today) ==
  LET keywords    == get(content_analysis, "code_keywords", <<>>)
      repo_name   == lower(get(repo, "name", <<>>))
      description == lower(get(repo, "description", <<>>))
      language    == lower(get(repo, "language", <<>>))
      stars       == get(repo, "stargazers_count", 0)
      \* "if test: score += x"
      add_if(score, test, x) == IF test THEN f_add(score, x) ELSE score
  IN  f_min(
        add_if(
          add_if(
            add_if(
              add_if(
                add_if(F0_0, any_in(keywords, repo_name), F0_3),
                description # <<>>,
                f_min(f_mul_int(keyword_matches(keywords, 1, description), F0_1), F0_4)),
              \E i \in 1..Len(keywords) : keywords[i] = language, F0_2),
            is_repository_active(repo, today), F0_1),
          stars > 10, f_min(f_div_int(stars, 1000), F0_2)),
        F1_0)

\* GitHubDiscoveryAgent._calculate_complexity raises AttributeError for a
\* null description, unless has_wiki spares the look at it
complexity_raises(repo) ==
  /\ ~get(repo, "has_wiki", FALSE)
  /\ IsNoneStr(get(repo, "description", <<>>))

\* GitHubDiscoveryAgent._calculate_complexity
calculate_complexity(repo) ==
  LET language == get(repo, "language", NoneStr)
      \* "if test: complexity += x"
      add_if(complexity, test, x) == IF test THEN f_add(complexity, x) ELSE complexity
  IN  f_min(
        add_if(
          f_add(
            add_if(
              f_add(F0_0, f_min(f_div_int(get(repo, "size", 0), 10000), F0_3)),
              ~IsNoneStr(language) /\ language # <<>>, F0_2),
            f_min(f_div_int(get(repo, "forks_count", 0), 100), F0_2)),
          \/ get(repo, "has_wiki", FALSE)
          \/ contains(lower(get(repo, "description", <<>>)), <<"r", "e", "a", "d", "m", "e">>),
          F0_1),
        F1_0)

\* GitHubDiscoveryAgent._extract_relevance_indicators
extract_relevance_indicators(repo, today) ==
  LET language    == get(repo, "language", NoneStr)
      description == get(repo, "description", NoneStr)
  IN  (IF is_repository_active(repo, today) THEN <<<<"r", "e", "c", "e", "n", "t", "l", "y", "_", "a", "c", "t", "i", "v", "e">>>> ELSE <<>>)
      \o (IF get(repo, "stargazers_count", 0) > 100 THEN <<<<"p", "o", "p", "u", "l", "a", "r">>>> ELSE <<>>)
      \o (IF ~IsNoneStr(language) /\ language # <<>>
            THEN <<<<"l", "a", "n", "g", "u", "a", "g", "e", "_">> \o lower(language)>> ELSE <<>>)
      \o (IF get(repo, "has_issues", FALSE) THEN <<<<"h", "a", "s", "_", "i", "s", "s", "u", "e", "s">>>> ELSE <<>>)
      \o (IF ~IsNoneStr(description) /\ description # <<>>
            THEN <<<<"d", "o", "c", "u", "m", "e", "n", "t", "e", "d">>>> ELSE <<>>)

\* GitHubDiscoveryAgent._validate_repository from the answer on: None is
\* returned for an answer other than 200 and for every exception
validated_repository(response, request, requests, today) ==
  LET repo_data == response.json
      enriched_data ==
        Merge(repo_data,
              [confidence_score |-> F0_9,
               discovery_method |-> "direct_validation",
               last_activity |-> get(repo_data, "pushed_at", None),
               is_active |-> is_repository_active(repo_data, today),
               complexity_score |-> calculate_complexity(repo_data),
               relevance_indicators |-> extract_relevance_indicators(repo_data, today)])
  IN  [requests |-> Append(requests, request),
       repos |-> IF response.raised THEN <<>>
                 ELSE IF response.status_code # 200 THEN <<>>
                 ELSE IF complexity_raises(repo_data) THEN <<>>
                 ELSE <<enriched_data>>]

\* GitHubDiscoveryAgent._validate_repository: the request is sent and logged
validate_repository(owner, repo, hosting, requests, today) ==
  validated_repository(
    github_get(hosting, [endpoint |-> "repos", owner |-> owner, repo |-> repo],
               Len(requests) + 1),
    [endpoint |-> "repos", owner |-> owner, repo |-> repo], requests, today)

\* str.rstrip(chars)
RECURSIVE rstrip(_, _)
rstrip(s, chars) ==
  IF s # <<>> /\ s[Len(s)] \in chars THEN rstrip(SubSeq(s, 1, Len(s) - 1), chars)
  ELSE s

\* re.search(r'github\.com/([^/]+)/([^/\s?#]+)', url) at position i: the
\* groups, or <<>> for no match there
url_groups_at(url, i) ==
  LET lit   == <<"g", "i", "t", "h", "u", "b", ".", "c", "o", "m", "/">>
      o     == i + Len(lit)
      olen  == run_len_not(url, o, {"/"})
      r     == o + olen + 1
      rlen  == run_len_not(url, r, {"/", "?", "#"} \cup Whitespace)
  IN  IF /\ starts_at(url, i, lit)
         /\ olen >= 1
         /\ o + olen <= Len(url)
         /\ url[o + olen] = "/"
         /\ rlen >= 1
        THEN <<SubSeq(url, o, o + olen - 1), SubSeq(url, r, r + rlen - 1)>>
        ELSE <<>>

\* GitHubDiscoveryAgent._validate_github_url
validate_github_url(url, hosting, requests, today) ==
  LET matches == {i \in 1..Len(url) : url_groups_at(url, i) # <<>>}
      groups  == url_groups_at(url, CHOOSE i \in matches : \A j \in matches : i <= j)
  IN  IF matches = {} THEN [requests |-> requests, repos |-> <<>>]
      ELSE validate_repository(groups[1], rstrip(groups[2], {".", "g", "i", "t"}),
                               hosting, requests, today)

\* a sort by decreasing key that turns entries with equal keys around
sort_reverse_unstable(l, keys) ==
  LET n == Len(l)
      place(i) == 1 + Cardinality({j \in 1..n : f_gt(keys[j], keys[i])})
                    + Cardinality({j \in (i + 1)..n : keys[j] = keys[i]})
  IN  [p \in 1..n |-> l[CHOOSE i \in 1..n : place(i) = p]]

\* list.sort(key=..., reverse=True): by decreasing key, entries with equal
\* keys in the order they had
sort_reverse(l, keys) ==
  LET n == Len(l)
      place(i) == 1 + Cardinality({j \in 1..n : f_gt(keys[j], keys[i])})
                    + Cardinality({j \in 1..(i - 1) : keys[j] = keys[i]})
  IN  [p \in 1..n |-> l[CHOOSE i \in 1..n : place(i) = p]]

\* relevant_repos.sort(key=lambda x: x['confidence_score'], reverse=True)
sort_by_confidence(relevant) ==
  sort_reverse(relevant, [i \in 1..Len(relevant) |-> relevant[i].confidence_score])

\* GitHubDiscoveryAgent._discover_user_repositories from the answer on: an
\* exception, of the request or of the scoring of any one repository, gives
\* the empty list
discovered_user_repositories(response, request, content_analysis, requests, today) ==
  LET repos    == response.json
      relevant == SelectSeq(
                    [i \in 1..Len(repos) |->
                       Merge(repos[i],
                             [confidence_score |->
                                IF relevance_raises(repos[i]) THEN F0_0
                                ELSE calculate_repository_relevance(repos[i], content_analysis, today),
                              discovery_method |-> "user_repository_search",
                              is_active |-> is_repository_active(repos[i], today),
                              complexity_score |->
                                IF complexity_raises(repos[i]) THEN F0_0
                                ELSE calculate_complexity(repos[i]),
                              relevance_indicators |->
                                extract_relevance_indicators(repos[i], today)])],
                    LAMBDA r : f_gt(r.confidence_score, F0_3))
  IN  [requests |-> Append(requests, request),
       repos |-> IF response.raised THEN <<>>
                 ELSE IF response.status_code # 200 THEN <<>>
                 ELSE IF \E i \in 1..Len(repos) : relevance_raises(repos[i]) THEN <<>>
                 ELSE head(sort_by_confidence(relevant), 5)]

\* the request of _discover_user_repositories
user_repositories_request(username, strategy) ==
  [endpoint |-> "users", username |-> username,
   per_page |-> IF strategy = "aggressive" THEN 20 ELSE 5]

\* GitHubDiscoveryAgent._discover_user_repositories: the request is sent and
\* logged
discover_user_repositories(username, content_analysis, strategy, hosting, requests, today) ==
  discovered_user_repositories(
    github_get(hosting, user_repositories_request(username, strategy), Len(requests) + 1),
    user_repositories_request(username, strategy), content_analysis, requests, today)

\* the words of _discover_author_repositories that tell a personal project
my_project_indicators ==
  <<<<"b", "u", "i", "l", "t">>, <<"c", "r", "e", "a", "t", "e", "d">>, <<"m", "a", "d", "e">>, <<"m", "y">>, <<"n", "e", "w">>, <<"l", "a", "t", "e", "s", "t">>, <<"j", "u", "s", "t">>, <<"w", "o", "r", "k", "i", "n", "g", " ", "o", "n">>>>

\* GitHubDiscoveryAgent._discover_author_repositories from the listing on
boost_personal_projects(recent, content_analysis, today) ==
  LET tweet_text == lower(get(content_analysis, "tweet_text", <<>>))
      has_personal_reference == any_in(my_project_indicators, tweet_text)
      boosted(repo) ==
        IF has_personal_reference /\ is_recent_repository(repo, today)
          THEN Merge(repo, [confidence_score |-> f_min(f_add(repo.confidence_score, F0_3), F1_0),
                            discovery_method |-> "author_personal_project"])
          ELSE repo
  IN  [requests |-> recent.requests,
       repos |-> [i \in 1..Len(recent.repos) |-> boosted(recent.repos[i])]]

\* GitHubDiscoveryAgent._discover_author_repositories
discover_author_repositories(author_github, content_analysis, strategy, hosting, requests, today) ==
  boost_personal_projects(
    discover_user_repositories(author_github, content_analysis, strategy, hosting,
                               requests, today),
    content_analysis, today)

\* What the language model does when asked for repositories: it is not
\* configured, the query raises, the reply is not JSON, or it is JSON (a
\* list of owner/repo suggestions, a list of objects without these fields,
\* or an object).
LLMSuggestions ==
  { [kind |-> "unavailable"],
    [kind |-> "error"],
    [kind |-> "not_json"],
    [kind |-> "json", is_list |-> TRUE,
     value |-> <<[owner |-> <<"a", "l", "i", "c", "e">>, repo |-> <<"t", "o", "o", "l">>, reasoning |-> "named"],
                 [owner |-> <<"n", "o", "b", "o", "d", "y">>, repo |-> <<"n", "o", "t", "h", "i", "n", "g">>, reasoning |-> "guess"]>>],
    [kind |-> "json", is_list |-> TRUE,
     value |-> <<[name |-> <<"a", "l", "i", "c", "e", "/", "t", "o", "o", "l">>]>>],
    [kind |-> "json", is_list |-> TRUE,
     value |-> <<[owner |-> <<"n", "o", "b", "o", "d", "y">>, repo |-> <<"n", "o", "t", "h", "i", "n", "g">>, reasoning |-> "guess"],
                 [owner |-> <<"a", "l", "i", "c", "e">>, repo |-> <<"t", "o", "o", "l">>, reasoning |-> "named"],
                 [owner |-> <<"f", "o", "o">>, repo |-> <<"b", "a", "r">>, reasoning |-> "guess"],
                 [owner |-> <<"u", "s", "e", "r">>, repo |-> <<"a", "w", "e", "s", "o", "m", "e", "-", "t", "o", "o", "l">>, reasoning |-> "guess"]>>],
    [kind |-> "json", is_list |-> FALSE, value |-> <<>>] }

\* GitHubDiscoveryAgent._llm_discovery
llm_discovery(content_analysis, llm) ==
  IF llm.kind = "json" /\ llm.is_list THEN llm.value ELSE <<>>

\* GitHubDiscoveryAgent._rank_repositories: the key of the sort
ranking_score(repo) ==
  f_add(f_add(get(repo, "confidence_score", F0_0),
              f_min(f_div_int(get(repo, "stargazers_count", 0), 1000), F0_2)),
        IF get(repo, "is_active", FALSE) THEN F0_1 ELSE F0_0)

\* GitHubDiscoveryAgent._rank_repositories, the loop after the sort: every
\* repository gets its rank and its ranking_score
with_ranks(sorted) ==
  [i \in 1..Len(sorted) |->
     Merge(sorted[i], [rank |-> i, ranking_score |-> ranking_score(sorted[i])])]

\* ranks given in the order of discovery, without the sort
rank_repositories_unsorted(repositories, content_analysis) == with_ranks(repositories)

\* GitHubDiscoveryAgent._rank_repositories
rank_repositories(repositories, content_analysis) ==
  with_ranks(sort_reverse(repositories,
                          [i \in 1..Len(repositories) |-> ranking_score(repositories[i])]))

\* discovered_repos.extend(...), with the requests sent so far
extend(found, step) ==
  [requests |-> step.requests, repos |-> found.repos \o step.repos]

\* process, step (a): every direct URL is validated
RECURSIVE validate_direct_urls(_, _, _, _, _)
validate_direct_urls(direct_urls, i, found, hosting, today) ==
  IF i > Len(direct_urls) THEN found
  ELSE validate_direct_urls(
         direct_urls, i + 1,
         extend(found, validate_github_url(direct_urls[i], hosting, found.requests, today)),
         hosting, today)

\* process, steps (b) and (c): every mention is looked up, a repository by
\* validation and a user by the listing of the account
RECURSIVE search_mentions(_, _, _, _, _, _, _)
search_mentions(github_mentions, i, found, content_analysis, strategy, hosting, today) ==
  IF i > Len(github_mentions) THEN found
  ELSE LET mention == github_mentions[i]
       IN  search_mentions(
             github_mentions, i + 1,
             extend(found,
                    IF mention.type = "repository"
                      THEN validate_repository(mention.owner, mention.repo, hosting,
                                               found.requests, today)
                    ELSE IF mention.type = "user"
                      THEN discover_user_repositories(mention.username, content_analysis,
                                                      strategy, hosting, found.requests, today)
                    ELSE [requests |-> found.requests, repos |-> <<>>]),
             content_analysis, strategy, hosting, today)

\* process, step (e): every suggestion of the model is validated
RECURSIVE validate_suggestions(_, _, _, _, _)
validate_suggestions(llm_discovered, i, found, hosting, today) ==
  IF i > Len(llm_discovered) THEN found
  ELSE validate_suggestions(
         llm_discovered, i + 1,
         extend(found, validate_repository(llm_discovered[i].owner, llm_discovered[i].repo,
                                           hosting, found.requests, today)),
         hosting, today)

\* process, step (d): the repositories of the author, unless one of the
\* author is found already
search_author(found, content_analysis, strategy, hosting, today) ==
  LET author_github == get(content_analysis, "author_github_candidate", <<>>)
  IN  IF /\ author_github # <<>>
         /\ ~\E i \in 1..Len(found.repos) : found.repos[i].owner.login = author_github
        THEN extend(found,
                    discover_author_repositories(author_github, content_analysis, strategy,
                                                 hosting, found.requests, today))
        ELSE found

\* the suggestions of the model that are reached before one without
\* "owner" or "repo" raises KeyError
usable_suggestions(llm_discovered) ==
  CHOOSE n \in 0..Len(llm_discovered) :
    /\ \A i \in 1..n : HasKey(llm_discovered[i], "owner")
                       /\ HasKey(llm_discovered[i], "repo")
    /\ n < Len(llm_discovered) =>
         ~(HasKey(llm_discovered[n + 1], "owner")
           /\ HasKey(llm_discovered[n + 1], "repo"))

\* the KeyError of a suggestion, "" when none is raised
suggestion_raises(llm_discovered) ==
  IF usable_suggestions(llm_discovered) < Len(llm_discovered)
    THEN IF HasKey(llm_discovered[usable_suggestions(llm_discovered) + 1], "owner")
           THEN "'repo'"
           ELSE "'owner'"
    ELSE ""

\* what was found, and what the suggestions raised
discovered_with(found, llm_discovered) ==
  [requests |-> found.requests, repos |-> found.repos,
   raised |-> suggestion_raises(llm_discovered)]

\* process, step (e): with nothing found under the aggressive strategy the
\* model is asked and its suggestions are validated
search_suggestions(found, llm_discovered, hosting, today) ==
  discovered_with(
    validate_suggestions(head(llm_discovered, usable_suggestions(llm_discovered)), 1,
                         found, hosting, today),
    llm_discovered)

\* what was discovered, with the questions put to the model
questioned(discovered, asked) ==
  [requests |-> discovered.requests, repos |-> discovered.repos,
   raised |-> discovered.raised, asked |-> asked]

\* the question _llm_discovery puts to the model if one is configured, by
\* the number of requests sent and of repositories found when it is put
question(found, llm) ==
  IF llm.kind = "unavailable" THEN <<>>
  ELSE <<[after |-> Len(found.requests), found |-> Len(found.repos)]>>

\* the model is asked under every strategy
ask_model_under_any_strategy(found, content_analysis, strategy, hosting, llm, today) ==
  questioned(
    search_suggestions(found,
                       IF found.repos = <<>>
                         THEN llm_discovery(content_analysis, llm)
                         ELSE <<>>,
                       hosting, today),
    IF found.repos = <<>> THEN question(found, llm) ELSE <<>>)

\* process from step (e) on
ask_model(found, content_analysis, strategy, hosting, llm, today) ==
  questioned(
    search_suggestions(found,
                       IF found.repos = <<>> /\ strategy = "aggressive"
                         THEN llm_discovery(content_analysis, llm)
                         ELSE <<>>,
                       hosting, today),
    IF found.repos = <<>> /\ strategy = "aggressive"
      THEN question(found, llm)
      ELSE <<>>)

\* The discovery of GitHubDiscoveryAgent.process: the repositories in the
\* order they are found, the requests sent, whether a suggestion without
\* "owner" is reached (KeyError), and the question put to the model.
discover(input_data, hosting, llm, now) ==
  LET content_analysis == get(input_data, "content_analysis", EmptyDict)
      strategy         == get(input_data, "discovery_strategy", "aggressive")
      today            == today_of(now)
  IN  ask_model(
        search_author(
          search_mentions(
            get(content_analysis, "github_mentions", <<>>), 1,
            validate_direct_urls(get(content_analysis, "direct_github_urls", <<>>), 1,
                                 [requests |-> <<>>, repos |-> <<>>], hosting, today),
            content_analysis, strategy, hosting, today),
          content_analysis, strategy, hosting, today),
        content_analysis, strategy, hosting, llm, today)

\* the discovery data of GitHubDiscoveryAgent.process
discovery_data(ranked_repos, content_analysis, strategy) ==
  [discovered_repositories |-> ranked_repos,
   total_found |-> Len(ranked_repos),
   discovery_strategy |-> strategy,
   direct_urls_processed |-> Len(get(content_analysis, "direct_github_urls", <<>>)),
   mentions_processed |-> Len(get(content_analysis, "github_mentions", <<>>)),
   has_high_confidence_repos |->
     \E i \in 1..Len(ranked_repos) : f_gt(ranked_repos[i].confidence_score, F0_8)]

\* GitHubDiscoveryAgent.process from the discovery on
discovery_result(input_data, discovered, now) ==
  LET content_analysis == get(input_data, "content_analysis", EmptyDict)
      strategy         == get(input_data, "discovery_strategy", "aggressive")
  IN  IF discovered.raised # ""
        THEN create_result("GitHubDiscoveryAgent", FALSE, None, discovered.raised, now)
        ELSE create_result("GitHubDiscoveryAgent", TRUE,
                           discovery_data(rank_repositories(discovered.repos, content_analysis),
                                          content_analysis, strategy),
                           "", now)

\* GitHubDiscoveryAgent.process
github_discovery_process(input_data, hosting, llm, now) ==
  discovery_result(input_data, discover(input_data, hosting, llm, now), now)

(***************************************************************************)
(* The sandbox and synthesis agents, as far as the orchestrator sees them: *)
(* what their process method returns.  What the sandbox and model          *)
(* collaborators answer is an input of these operators.                    *)
(***************************************************************************)
\* a selection that takes a repository without complexity score for simple
select_repositories_for_execution_lenient(repositories, strategy, max_repos) ==
  IF strategy = "quick"
    THEN slice_to(SelectSeq(repositories,
                            LAMBDA repo : /\ f_gt(get(repo, "confidence_score", F0_0), F0_7)
                                          /\ f_lt(get(repo, "complexity_score", F0_0), F0_5)),
                  Min(max_repos, 2))
  ELSE IF strategy = "thorough"
    THEN slice_to(SelectSeq(repositories,
                            LAMBDA repo : f_gt(get(repo, "confidence_score", F0_0), F0_5)),
                  max_repos)
  ELSE slice_to(repositories, max_repos)

\* CodeExecutionAgent._select_repositories_for_execution
select_repositories_for_execution(repositories, strategy, max_repos) ==
  IF strategy = "quick"
    THEN slice_to(SelectSeq(repositories,
                            LAMBDA repo : /\ f_gt(get(repo, "confidence_score", F0_0), F0_7)
                                          /\ f_lt(get(repo, "complexity_score", F1_0), F0_5)),
                  Min(max_repos, 2))
  ELSE IF strategy = "thorough"
    THEN slice_to(SelectSeq(repositories,
                            LAMBDA repo : f_gt(get(repo, "confidence_score", F0_0), F0_5)),
                  max_repos)
  ELSE slice_to(repositories, max_repos)

\* CodeExecutionAgent.process: the selected repositories are run, each run
\* succeeding or not ('run_ok'), or an exception was caught ('failure')
code_execution_process(input_data, run_ok, failure, now) ==
  LET github_discovery == get(input_data, "github_discovery", EmptyDict)
      strategy         == get(input_data, "execution_strategy", "quick")
      max_repos        == get(input_data, "max_repositories", 3)
      discovered       == get(github_discovery, "discovered_repositories", <<>>)
      repos_to_execute == select_repositories_for_execution(discovered, strategy, max_repos)
      executed         == Len(repos_to_execute)
      execution_results ==
        [i \in 1..executed |->
           [success |-> run_ok,
            repository_metadata |-> [name |-> repos_to_execute[i].name,
                                     full_name |-> repos_to_execute[i].full_name]]]
      execution_data ==
        [execution_results |-> execution_results,
         total_executed |-> executed,
         successful_executions |-> IF run_ok THEN executed ELSE 0,
         execution_strategy |-> strategy,
         analysis |-> [total |-> executed]]
  IN  IF failure
        THEN create_result("CodeExecutionAgent", FALSE, None, "execution error", now)
      ELSE IF discovered = <<>>
        THEN create_result("CodeExecutionAgent", TRUE,
                           [execution_results |-> <<>>,
                            message |-> "No repositories to execute"], "", now)
      ELSE create_result("CodeExecutionAgent", TRUE, execution_data, "", now)

\* ContentSynthesisAgent._generate_metadata
generate_metadata(input_data, now) ==
  [pipeline_version |-> "1.0",
   processing_timestamp |-> now,
   agents_used |-> <<"ContentAnalysisAgent", "GitHubDiscoveryAgent",
                     "CodeExecutionAgent", "ContentSynthesisAgent">>,
   original_bookmark_id |-> get(get(input_data, "original_bookmark", EmptyDict), "post_id", None),
   github_repositories_count |->
     Len(get(get(input_data, "github_discovery", EmptyDict), "discovered_repositories", <<>>)),
   execution_success_rate |->
     get(get(get(input_data, "code_execution", EmptyDict), "analysis", EmptyDict),
         "success_rate", 0),
   content_analysis_score |->
     get(get(input_data, "content_analysis", EmptyDict), "github_relevance_score", 0),
   synthesis_style |-> get(input_data, "synthesis_style", "detailed")]

\* ContentSynthesisAgent._extract_tweet_info
extract_tweet_info(bookmark, content_analysis) ==
  LET tweet_details  == get(bookmark, "tweet_details", EmptyDict)
      author_details == get(bookmark, "author_details", EmptyDict)
  IN  [text |-> get(tweet_details, "text", <<>>),
       author_name |-> get(author_details, "name", <<"U", "n", "k", "n", "o", "w", "n">>),
       author_username |-> get(author_details, "username", <<>>),
       posted_at |-> get(tweet_details, "posted_at", None),
       link |-> get(tweet_details, "link", None),
       content_type |-> get(content_analysis, "content_type", <<"u", "n", "k", "n", "o", "w", "n">>),
       github_relevance_score |-> get(content_analysis, "github_relevance_score", 0),
       code_keywords |-> get(content_analysis, "code_keywords", <<>>),
       processing_priority |-> get(content_analysis, "processing_priority", "low")]

\* the summary of one repository in _extract_github_info: the first
\* execution result with its full name, if any, is joined to it
repo_summary(repo, execution_results) ==
  LET matching ==
        {j \in 1..Len(execution_results) :
           get(get(execution_results[j], "repository_metadata", EmptyDict),
               "full_name", NoneStr) = repo.full_name}
      summary ==
        [name |-> repo.name,
         full_name |-> repo.full_name,
         description |-> get(repo, "description", <<>>),
         language |-> get(repo, "language", NoneStr),
         stars |-> get(repo, "stargazers_count", 0),
         confidence_score |-> get(repo, "confidence_score", 0),
         discovery_method |-> get(repo, "discovery_method", <<>>),
         executed |-> matching # {},
         execution_summary |-> <<>>]
  IN  IF matching = {} THEN summary
      ELSE LET exec_result == execution_results[CHOOSE j \in matching : \A k \in matching : j <= k]
           IN  Merge(summary,
                     [execution_summary |-> get(exec_result, "execution_summary", <<>>),
                      functionality |-> get(exec_result, "functionality", EmptyDict),
                      insights |-> get(exec_result, "insights", EmptyDict)])

\* ContentSynthesisAgent._extract_github_info
extract_github_info(github_discovery, code_execution) ==
  LET discovered_repositories == get(github_discovery, "discovered_repositories", <<>>)
      execution_results       == get(code_execution, "execution_results", <<>>)
      top                     == head(discovered_repositories, 3)
  IN  [repositories_found |-> Len(discovered_repositories),
       repositories_executed |-> Len(execution_results),
       successful_executions |-> get(code_execution, "successful_executions", 0),
       has_runnable_code |-> get(code_execution, "has_runnable_code", FALSE),
       top_repositories |-> [i \in 1..Len(top) |-> repo_summary(top[i], execution_results)]]

\* ContentSynthesisAgent._generate_title
generate_title(tweet_info, github_info) ==
  LET author       == tweet_info.author_name
      content_type == title(spaced(tweet_info.content_type))
      top_repos    == get(github_info, "top_repositories", <<>>)
      keywords     == get(tweet_info, "code_keywords", <<>>)
  IN  IF top_repos # <<>>
        THEN content_type \o <<" ", "b", "y", " ">> \o author \o <<":", " ">> \o top_repos[1].name
      ELSE IF keywords # <<>>
        THEN content_type \o <<" ", "b", "y", " ">> \o author \o <<":", " ">> \o title(keywords[1])
               \o <<" ", "P", "r", "o", "j", "e", "c", "t">>
      ELSE content_type \o <<" ", "b", "y", " ">> \o author

\* ContentSynthesisAgent.process: the synthesis is produced, or an exception
\* was caught.  A content type that is None has no replace method: the
\* AttributeError raised for it is caught by the handler of process.
content_synthesis_process(input_data, failure, now) ==
  LET original_bookmark == get(input_data, "original_bookmark", EmptyDict)
      content_analysis  == get(input_data, "content_analysis", EmptyDict)
      github_discovery  == get(input_data, "github_discovery", EmptyDict)
      code_execution    == get(input_data, "code_execution", EmptyDict)
      tweet_info        == extract_tweet_info(original_bookmark, content_analysis)
      github_info       == extract_github_info(github_discovery, code_execution)
      synthesis_data ==
        [title |-> generate_title(tweet_info, github_info),
         synthesized_content |-> "content",
         actionable_items |-> <<"item">>,
         tags |-> <<"tag">>,
         metadata |-> generate_metadata(input_data, now),
         synthesis_style |-> get(input_data, "synthesis_style", "detailed"),
         content_ready_for_notion |-> TRUE]
  IN  IF failure
        THEN create_result("ContentSynthesisAgent", FALSE, None, "synthesis error", now)
      ELSE IF IsNoneStr(tweet_info.content_type)
        THEN create_result("ContentSynthesisAgent", FALSE, None,
                           "'NoneType' object has no attribute 'replace'", now)
      ELSE create_result("ContentSynthesisAgent", TRUE, synthesis_data, "", now)

(***************************************************************************)
(* AgentOrchestrator (agents/orchestrator.py).                             *)
(***************************************************************************)
VARIABLES
  pc,                     \* where process_bookmark is
  bookmark_data,          \* its first argument
  pipeline_config,        \* its second argument
  config,                 \* local: the merged configuration
  pipeline_results,       \* local: the report under construction
  start_time,             \* local: when the current stage was started
  content_analysis_data,  \* local
  github_discovery_data,  \* local
  discovered_repos,       \* local
  code_execution_data,    \* local
  awaited,                \* the coroutine last awaited, with its deadline
  in_progress,            \* the agents whose process() is running
  invoked,                \* the agents invoked so far, in order
  stage_results,          \* the results the awaits have given, in order
  clock,                  \* time.time()
  report,                 \* what process_bookmark returned
  operation,              \* the agent method called on its own, if any
  arguments,              \* what it was called with
  returned,               \* what it returned
  exchanges,              \* what the collaborators were asked and answered
  tasks,                  \* the suspended process_bookmark coroutines
  current,                \* the coroutine the event loop is running
  jobs,                   \* the job entries of ContentRouter in Redis
  router_calls,           \* the calls of ContentRouter.process_bookmark
  cache,                  \* the cache entries of TweetSmashTools in Redis
  fetch_calls             \* the calls of TweetSmashTools.fetch_bookmarks

vars ==
  <<pc, bookmark_data, pipeline_config, config, pipeline_results, start_time,
    content_analysis_data, github_discovery_data, discovered_repos,
    code_execution_data, awaited, in_progress, invoked, stage_results, clock,
    report, operation, arguments, returned, exchanges, tasks, current,
    jobs, router_calls, cache, fetch_calls>>

\* what the router and the bookmark tools keep
service_vars == <<jobs, router_calls, cache, fetch_calls>>

\* a local variable that has not been assigned
Unbound == [py_unbound |-> TRUE]

IsUnbound(x) == "py_unbound" \in DOMAIN x

\* a bookmark as the tests build it
Bookmark(id, text) ==
  [post_id |-> id,
   tweet_details |-> [text |-> text, posted_at |-> "2024-01-01T12:00:00Z",
                      link |-> "https://twitter.com/test/status/123"],
   author_details |-> [name |-> <<"T", "e", "s", "t">>,
                       username |-> <<"t", "e", "s", "t", "u", "s", "e", "r">>]]

\* the bookmarks process_bookmark is called with: one per text, one without
\* tweet_details, one whose tweet_details is null, and None (server.py hands
\* over bookmark_result.get("bookmark"))
Bookmarks ==
  {Bookmark("post_1", t) : t \in Texts}
    \cup {[post_id |-> "post_2"],
          [post_id |-> "post_3", tweet_details |-> None],
          None}

\* the pipeline_config values: absent, the one of the tests, and a JSON
\* value that is not an object
PipelineConfigs ==
  {None,
   [discovery_strategy |-> "conservative", execution_strategy |-> "quick",
    synthesis_style |-> "summary", max_repositories |-> 1,
    timeout_per_agent |-> 30],
   [py_list |-> TRUE]}

\* the defaults of process_bookmark
default_config ==
  [discovery_strategy |-> "aggressive", execution_strategy |-> "quick",
   synthesis_style |-> "detailed", max_repositories |-> 3,
   enable_parallel_execution |-> TRUE, timeout_per_agent |-> 60]

\* sum(d.values()) of a dict of numbers
RECURSIVE sum_values(_)
sum_values(d) ==
  IF IsEmptyDict(d) \/ DOMAIN d = {} THEN 0
  ELSE LET k == CHOOSE x \in DOMAIN d : TRUE
       IN  d[k] + sum_values([x \in (DOMAIN d) \ {k} |-> d[x]])

\* an error report that does not clear the success flag
create_error_result_flag_kept(error_message, results, now) ==
  [success |-> TRUE,
   error |-> error_message,
   pipeline_results |-> IF Truthy(results) THEN results ELSE EmptyDict,
   timestamp |-> now]

\* AgentOrchestrator._create_error_result
create_error_result(error_message, results, now) ==
  [success |-> FALSE,
   error |-> error_message,
   pipeline_results |-> IF Truthy(results) THEN results ELSE EmptyDict,
   timestamp |-> now]

\* What an awaited agent does: it returns a result, or it is still pending
\* when the deadline passes.
\* AgentOrchestrator._run_with_timeout
run_with_timeout(outcome, timeout_seconds, agent_name) ==
  IF outcome.kind = "return" THEN outcome.result
  ELSE IF outcome.kind = "timeout"
    THEN [success |-> FALSE,
          error |-> "Agent timed out after " \o ToString(timeout_seconds) \o " seconds",
          agent |-> agent_name]
  ELSE [success |-> FALSE, error |-> outcome.error, agent |-> agent_name]

\* wait_for replaced by a wait that leaves the coroutine running
after_deadline_not_cancelled(running, agent_name) == running

\* asyncio.wait_for, on the deadline, cancels the coroutine and waits until
\* it is cancelled: the agent is no longer running when wait_for returns
after_deadline(running, agent_name) == running \ {agent_name}

\* the agent's process() has returned
after_return(running, agent_name) == running \ {agent_name}

\* agent.process(input_data) is awaited, under wait_for when
\* timeout_seconds > 0 and directly when it is 0
Await(agent_name, input_data, timeout_seconds, running) ==
  /\ awaited' = [agent |-> agent_name, input |-> input_data, timeout |-> timeout_seconds]
  /\ in_progress' = running \cup {agent_name}
  /\ invoked' = Append(invoked, agent_name)

\* process_bookmark returns value
Return(value) ==
  /\ report' = value
  /\ pc' = "returned"

\* the branch test made of the flag alone
low_github_relevance_by_flag_only(data) ==
  ~get(data, "requires_github_discovery", FALSE)

\* the branch test with the comparison of the score turned round
low_github_relevance_reversed(data) ==
  /\ ~get(data, "requires_github_discovery", FALSE)
  /\ f_gt(get(data, "github_relevance_score", F0_0), F0_3)

\* the branch test after classification (lines 85-86)
low_github_relevance(data) ==
  /\ ~get(data, "requires_github_discovery", FALSE)
  /\ f_lt(get(data, "github_relevance_score", F0_0), F0_3)

\* pipeline_results after a stage: its result and its elapsed time recorded
record_stage(results, key, result, elapsed) ==
  [results EXCEPT !.agent_results = DictSet(@, key, result),
                  !.timing = DictSet(@, key, elapsed)]

Init ==
  /\ pc = "idle"
  /\ bookmark_data = None
  /\ pipeline_config = None
  /\ config = Unbound
  /\ pipeline_results = Unbound
  /\ start_time = 0
  /\ content_analysis_data = Unbound
  /\ github_discovery_data = Unbound
  /\ discovered_repos = Unbound
  /\ code_execution_data = Unbound
  /\ awaited = Unbound
  /\ in_progress = {}
  /\ invoked = <<>>
  /\ stage_results = <<>>
  /\ clock = 0
  /\ report = Unbound
  /\ operation = "none"
  /\ arguments = Unbound
  /\ returned = Unbound
  /\ exchanges = [hosting |-> <<>>, model |-> <<>>, sandbox |-> <<>>,
                  synthesis |-> <<>>, expired |-> <<>>]
  /\ tasks = <<>>
  /\ current = 0
  /\ jobs = <<>>
  /\ router_calls = <<>>
  /\ cache = {}
  /\ fetch_calls = <<>>

\* the handler of process_bookmark (lines 192-194): it reads
\* pipeline_results, and when the exception came before that local was
\* bound the UnboundLocalError it raises leaves the call
exception_handler(message, results, now) ==
  IF IsUnbound(results)
    THEN pc' = "raised" /\ UNCHANGED report
    ELSE Return(create_error_result("Pipeline failed: " \o message, results, now))

\* process_bookmark(b, c) from its entry to the first await (lines 42-74)
process_bookmark(b, c) ==
  /\ pc = "idle"
  /\ UNCHANGED <<operation, arguments, returned, exchanges, tasks, current, service_vars>>
  /\   LET merged  == Merge(default_config, IF Truthy(c) THEN c ELSE EmptyDict)
           results == [bookmark_id |-> get(b, "post_id", None),
                       pipeline_config |-> merged,
                       agent_results |-> EmptyDict,
                       timing |-> EmptyDict,
                       errors |-> <<>>]
           tweet_details == get(b, "tweet_details", EmptyDict)
       IN  /\ bookmark_data' = b
           /\ pipeline_config' = c
           /\ UNCHANGED <<content_analysis_data, github_discovery_data,
                          discovered_repos, code_execution_data, stage_results,
                          clock>>
           /\ IF HasKey(c, "py_list")
                \* TypeError at line 53: ** of a value that is no mapping
                THEN /\ exception_handler("argument after ** must be a mapping",
                                          pipeline_results, clock)
                     /\ UNCHANGED <<config, pipeline_results, start_time,
                                    awaited, in_progress, invoked>>
              ELSE IF IsNone(b)
                \* AttributeError at line 57: None has no get
                THEN /\ config' = merged
                     /\ exception_handler("'NoneType' object has no attribute 'get'",
                                          pipeline_results, clock)
                     /\ UNCHANGED <<pipeline_results, start_time,
                                    awaited, in_progress, invoked>>
              ELSE IF IsNone(tweet_details)
                \* AttributeError at line 69
                THEN /\ config' = merged
                     /\ pipeline_results' = results
                     /\ start_time' = clock
                     /\ exception_handler("'NoneType' object has no attribute 'get'",
                                          results, clock)
                     /\ UNCHANGED <<awaited, in_progress, invoked>>
              ELSE /\ config' = merged
                   /\ pipeline_results' = results
                   /\ start_time' = clock
                   /\ Await("ContentAnalysisAgent",
                            [bookmark |-> b,
                             tweet_text |-> get(tweet_details, "text", <<>>),
                             author_details |-> get(b, "author_details", EmptyDict)],
                            merged.timeout_per_agent, in_progress)
                   /\ pc' = "await_analysis"
                   /\ UNCHANGED report

\* a call of process_bookmark
ProcessBookmark == \E b \in Bookmarks, c \in PipelineConfigs : process_bookmark(b, c)

\* the input of the synthesis stage
synthesis_input(analysis, discovery, execution) ==
  [original_bookmark |-> bookmark_data,
   content_analysis |-> analysis,
   github_discovery |-> discovery,
   code_execution |-> execution,
   synthesis_style |-> config.synthesis_style]

\* the execution data handed to synthesis when there is none
no_execution == [execution_results |-> <<>>, analysis |-> EmptyDict]

\* lines 76-100 of process_bookmark, and _process_non_github_content up to
\* its await: classification has given 'result' at time 'now'
AfterContentAnalysis(result, now, running) ==
  LET results == record_stage(pipeline_results, "content_analysis", result,
                              now - start_time)
  IN  /\ pipeline_results' = results
      /\ clock' = now
      /\ UNCHANGED <<bookmark_data, pipeline_config, config, github_discovery_data,
                     discovered_repos, code_execution_data>>
      /\ IF ~get(result, "success", FALSE)
           THEN /\ Return(create_error_result("Content analysis failed", results, now))
                /\ in_progress' = running
                /\ UNCHANGED <<start_time, content_analysis_data, awaited, invoked>>
         ELSE /\ content_analysis_data' = result.data
              /\ UNCHANGED report
              /\ IF low_github_relevance(result.data)
                   THEN /\ Await("ContentSynthesisAgent",
                                 synthesis_input(result.data,
                                                 [discovered_repositories |-> <<>>],
                                                 no_execution),
                                 0, running)
                        /\ pc' = "await_synthesis_non_github"
                        /\ UNCHANGED start_time
                   ELSE /\ start_time' = now
                        /\ Await("GitHubDiscoveryAgent",
                                 [content_analysis |-> result.data,
                                  discovery_strategy |-> config.discovery_strategy],
                                 config.timeout_per_agent, running)
                        /\ pc' = "await_discovery"

\* the test written "if discovered_repos is None"
no_repositories_is_none(repos) == IsNone(repos)

\* line 112: "if not discovered_repos"
no_repositories(repos) == repos = <<>>

\* lines 102-131 of process_bookmark, and _process_without_execution up to
\* its await
AfterGithubDiscovery(result, now, running) ==
  LET results == record_stage(pipeline_results, "github_discovery", result,
                              now - start_time)
  IN  /\ pipeline_results' = results
      /\ clock' = now
      /\ UNCHANGED <<bookmark_data, pipeline_config, config, content_analysis_data,
                     code_execution_data>>
      /\ IF ~get(result, "success", FALSE)
           THEN /\ Return(create_error_result("GitHub discovery failed", results, now))
                /\ in_progress' = running
                /\ UNCHANGED <<start_time, github_discovery_data, discovered_repos,
                               awaited, invoked>>
         ELSE LET repos == get(result.data, "discovered_repositories", <<>>)
              IN  /\ github_discovery_data' = result.data
                  /\ discovered_repos' = repos
                  /\ UNCHANGED report
                  /\ IF no_repositories(repos)
                       THEN /\ Await("ContentSynthesisAgent",
                                     synthesis_input(content_analysis_data, result.data,
                                                     no_execution),
                                     0, running)
                            /\ pc' = "await_synthesis_without_execution"
                            /\ UNCHANGED start_time
                       ELSE /\ start_time' = now
                            /\ Await("CodeExecutionAgent",
                                     [github_discovery |-> result.data,
                                      execution_strategy |-> config.execution_strategy,
                                      max_repositories |-> config.max_repositories],
                                     config.timeout_per_agent * 2, running)
                            /\ pc' = "await_execution"

\* the failed stage result kept as if it were one execution result
execution_data_of_kept(result) ==
  IF ~get(result, "success", FALSE)
    THEN [execution_results |-> <<result>>, analysis |-> EmptyDict]
    ELSE result.data

\* lines 136-141: a failed execution stage is replaced by empty results
execution_data_of(result) ==
  IF ~get(result, "success", FALSE) THEN no_execution ELSE result.data

\* lines 133-155 with a failed sandbox stage run a second time
AfterCodeExecutionRetry(result, now, running) ==
  LET results == record_stage(pipeline_results, "code_execution", result,
                              now - start_time)
      data    == execution_data_of(result)
      again   == /\ ~get(result, "success", FALSE)
                 /\ Len(SelectSeq(invoked, LAMBDA a : a = "CodeExecutionAgent")) = 1
  IN  /\ pipeline_results' = results
      /\ clock' = now
      /\ code_execution_data' = data
      /\ start_time' = now
      /\ IF again
           THEN /\ Await("CodeExecutionAgent", awaited.input, awaited.timeout, running)
                /\ pc' = "await_execution"
           ELSE /\ Await("ContentSynthesisAgent",
                         synthesis_input(content_analysis_data, github_discovery_data,
                                         data),
                         config.timeout_per_agent, running)
                /\ pc' = "await_synthesis"
      /\ UNCHANGED <<bookmark_data, pipeline_config, config, content_analysis_data,
                     github_discovery_data, discovered_repos, report>>

\* lines 133-155 of process_bookmark
AfterCodeExecution(result, now, running) ==
  LET results == record_stage(pipeline_results, "code_execution", result,
                              now - start_time)
      data    == execution_data_of(result)
  IN  /\ pipeline_results' = results
      /\ clock' = now
      /\ code_execution_data' = data
      /\ start_time' = now
      /\ Await("ContentSynthesisAgent",
               synthesis_input(content_analysis_data, github_discovery_data, data),
               config.timeout_per_agent, running)
      /\ pc' = "await_synthesis"
      /\ UNCHANGED <<bookmark_data, pipeline_config, config, content_analysis_data,
                     github_discovery_data, discovered_repos, report>>

\* lines 163-182: the report of a complete run
final_result(bookmark, synthesis_data, results, repos, execution, analysis) ==
  [success |-> TRUE,
   bookmark_id |-> get(bookmark, "post_id", None),
   title |-> get(synthesis_data, "title", None),
   content |-> get(synthesis_data, "synthesized_content", None),
   actionable_items |-> get(synthesis_data, "actionable_items", <<>>),
   tags |-> get(synthesis_data, "tags", <<>>),
   metadata |->
     Merge(get(synthesis_data, "metadata", EmptyDict),
           [pipeline_timing |-> results.timing,
            total_processing_time |-> sum_values(results.timing),
            repositories_discovered |-> Len(repos),
            repositories_executed |-> Len(get(execution, "execution_results", <<>>)),
            github_relevance_score |-> get(analysis, "github_relevance_score", F0_0)]),
   pipeline_results |-> results]

\* lines 157-190 of process_bookmark
AfterContentSynthesis(result, now, running) ==
  LET results == record_stage(pipeline_results, "content_synthesis", result,
                              now - start_time)
  IN  /\ pipeline_results' = results
      /\ clock' = now
      /\ in_progress' = running
      /\ IF ~get(result, "success", FALSE)
           THEN Return(create_error_result("Content synthesis failed", results, now))
           ELSE Return(final_result(bookmark_data, result.data, results,
                                    discovered_repos, code_execution_data,
                                    content_analysis_data))
      /\ UNCHANGED <<bookmark_data, pipeline_config, config, start_time,
                     content_analysis_data, github_discovery_data, discovered_repos,
                     code_execution_data, awaited, invoked>>

\* lines 217-229 and 258-270: the report of a short-circuit branch
short_circuit_result(bookmark, synthesis_data, processing_type, analysis) ==
  [success |-> TRUE,
   bookmark_id |-> get(bookmark, "post_id", None),
   title |-> get(synthesis_data, "title", None),
   content |-> get(synthesis_data, "synthesized_content", None),
   actionable_items |-> get(synthesis_data, "actionable_items", <<>>),
   tags |-> get(synthesis_data, "tags", <<>>),
   metadata |->
     Merge(get(synthesis_data, "metadata", EmptyDict),
           [processing_type |-> processing_type,
            github_relevance_score |-> get(analysis, "github_relevance_score", F0_0)])]

\* lines 215-231 of _process_non_github_content and lines 256-272 of
\* _process_without_execution, which differ in the two strings
AfterShortCircuitSynthesis(result, now, running, processing_type, failure_message) ==
  /\ clock' = now
  /\ in_progress' = running
  /\ IF get(result, "success", FALSE)
       THEN Return(short_circuit_result(bookmark_data, result.data, processing_type,
                                        content_analysis_data))
       ELSE Return(create_error_result(failure_message, None, now))
  /\ UNCHANGED <<bookmark_data, pipeline_config, config, pipeline_results, start_time,
                 content_analysis_data, github_discovery_data, discovered_repos,
                 code_execution_data, awaited, invoked>>

\* the continuation of process_bookmark at each of its awaits
Continue(result, now, running) ==
  /\ stage_results' = Append(stage_results, result)
  /\ UNCHANGED <<operation, arguments, returned, tasks, current, service_vars>>
  /\ CASE pc = "await_analysis" -> AfterContentAnalysis(result, now, running)
       [] pc = "await_discovery" -> AfterGithubDiscovery(result, now, running)
       [] pc = "await_execution" -> AfterCodeExecution(result, now, running)
       [] pc = "await_synthesis" -> AfterContentSynthesis(result, now, running)
       [] pc = "await_synthesis_non_github" ->
            AfterShortCircuitSynthesis(result, now, running, "non_github_content",
                                       "Synthesis failed for non-GitHub content")
       [] pc = "await_synthesis_without_execution" ->
            AfterShortCircuitSynthesis(result, now, running, "github_analysis_only",
                                       "Synthesis failed for GitHub analysis")

\* the awaited agent returns 'value' after 'elapsed' seconds
Returns(value, elapsed) ==
  Continue(IF awaited.timeout > 0
             THEN run_with_timeout([kind |-> "return", result |-> value],
                                   awaited.timeout, awaited.agent)
             ELSE value,
           clock + elapsed, after_return(in_progress, awaited.agent))

\* the classification stage returns after 'elapsed' seconds, the model
\* collaborator having replied 'llm'
ContentAnalysisAnswers(llm, elapsed) ==
  /\ pc = "await_analysis"
  /\ Returns(content_analysis_process(awaited.input, llm, clock + elapsed), elapsed)
  /\ exchanges' = [exchanges EXCEPT !.model = Append(@, llm)]

\* the classification stage returns
ContentAnalysisReturns ==
  \E llm \in LLMReplies, elapsed \in 0..MaxElapsed : ContentAnalysisAnswers(llm, elapsed)

\* what the hosting collaborator holds while a bookmark is processed: no
\* account; the project alone, or after a repository with null fields, in
\* every account; and the same with the first request failing
PipelineHostings ==
  { Hosting(<<FALSE, <<>>>>, <<FALSE, <<>>>>, 0),
    Hosting(<<TRUE, << <<"project", "tool">> >> >>, <<TRUE, << <<"project", "tool">> >> >>, 0),
    Hosting(<<TRUE, << <<"notes", "bare">>, <<"project", "tool">> >> >>,
            <<TRUE, << <<"project", "tool">>, <<"fork", "tool">> >> >>, 0),
    Hosting(<<TRUE, << <<"project", "tool">> >> >>, <<TRUE, << <<"project", "tool">> >> >>, 1) }

\* what the model suggests while a bookmark is processed
PipelineSuggestions ==
  { [kind |-> "unavailable"],
    [kind |-> "json", is_list |-> TRUE, value |-> <<[name |-> <<"a", "l", "i", "c", "e", "/", "t", "o", "o", "l">>]>>] }

\* the resolution stage returns what GitHubDiscoveryAgent.process makes of
\* the discovery, and the requests of the discovery are in the log
GithubDiscoveryGives(discovered, elapsed) ==
  /\ Returns(discovery_result(awaited.input, discovered, clock + elapsed), elapsed)
  /\ exchanges' = [exchanges EXCEPT !.hosting = @ \o discovered.requests]

\* the resolution stage returns after 'elapsed' seconds, the hosting
\* collaborator being in state 'hosting' and the model suggesting 'llm'
GithubDiscoveryAnswers(hosting, llm, elapsed) ==
  /\ pc = "await_discovery"
  /\ GithubDiscoveryGives(discover(awaited.input, hosting, llm, clock + elapsed), elapsed)

\* the resolution stage returns
GithubDiscoveryReturns ==
  \E hosting \in PipelineHostings, llm \in PipelineSuggestions, elapsed \in 0..MaxElapsed :
    GithubDiscoveryAnswers(hosting, llm, elapsed)

\* the sandbox stage returns after 'elapsed' seconds
CodeExecutionAnswers(run_ok, failure, elapsed) ==
  /\ pc = "await_execution"
  /\ Returns(code_execution_process(awaited.input, run_ok, failure, clock + elapsed),
             elapsed)
  /\ exchanges' = [exchanges EXCEPT !.sandbox = Append(@, <<run_ok, failure>>)]

\* the sandbox stage returns
CodeExecutionReturns ==
  \E run_ok \in BOOLEAN, failure \in BOOLEAN, elapsed \in 0..MaxElapsed :
    CodeExecutionAnswers(run_ok, failure, elapsed)

\* the synthesis stage returns after 'elapsed' seconds, on the full path or
\* on a short-circuit branch
ContentSynthesisAnswers(failure, elapsed) ==
  /\ pc \in {"await_synthesis", "await_synthesis_non_github",
             "await_synthesis_without_execution"}
  /\ Returns(content_synthesis_process(awaited.input, failure, clock + elapsed),
             elapsed)
  /\ exchanges' = [exchanges EXCEPT !.synthesis = Append(@, failure)]

\* the synthesis stage returns
ContentSynthesisReturns ==
  \E failure \in BOOLEAN, elapsed \in 0..MaxElapsed :
    ContentSynthesisAnswers(failure, elapsed)

\* the awaited agent is still pending when the deadline of wait_for passes
DeadlineExpires ==
  /\ pc \in {"await_analysis", "await_discovery", "await_execution", "await_synthesis",
             "await_synthesis_non_github", "await_synthesis_without_execution"}
  /\ awaited.timeout > 0
  /\ Continue(run_with_timeout([kind |-> "timeout"], awaited.timeout, awaited.agent),
              clock + awaited.timeout, after_deadline(in_progress, awaited.agent))
  /\ exchanges' = [exchanges EXCEPT !.expired = Append(@, awaited.agent)]

Next ==
  \/ ProcessBookmark
  \/ ContentAnalysisReturns
  \/ GithubDiscoveryReturns
  \/ CodeExecutionReturns
  \/ ContentSynthesisReturns
  \/ DeadlineExpires

Spec == Init /\ [][Next]_vars

(***************************************************************************)
(* The agents called on their own, as test_individual_agents calls them:   *)
(* operation is the method called, arguments what it was called with and   *)
(* returned its result.                                                    *)
(***************************************************************************)
\* the variables of a process_bookmark run
pipeline_vars ==
  <<pc, bookmark_data, pipeline_config, config, pipeline_results, start_time,
    content_analysis_data, github_discovery_data, discovered_repos,
    code_execution_data, awaited, in_progress, invoked, stage_results, clock,
    report>>

\* 'http://github.com/foo/bar'
TextHttp == <<"h", "t", "t", "p", ":", "/", "/", "g", "i", "t", "h", "u", "b", ".", "c", "o", "m", "/", "f", "o", "o", "/", "b", "a", "r">>

\* 'alice/tool released'
TextRepoMention == <<"a", "l", "i", "c", "e", "/", "t", "o", "o", "l", " ", "r", "e", "l", "e", "a", "s", "e", "d">>

\* the texts the classifier is called with
ClassifierTexts == Texts \cup {TextHttp, TextRepoMention}

\* the author of the sample input
SampleAuthor == [name |-> <<"D", "e", "v", "e", "l", "o", "p", "e", "r">>, username |-> <<"d", "e", "v", "_", "u", "s", "e", "r">>]

\* the input_data of ContentAnalysisAgent.process: as process_bookmark
\* builds it, as the test builds it (no bookmark), and with the bookmark
\* alone
AnalysisInputs ==
  {[bookmark |-> Bookmark("post_1", t), tweet_text |-> t,
    author_details |-> Bookmark("post_1", t).author_details] : t \in ClassifierTexts}
    \cup {[tweet_text |-> t, author_details |-> SampleAuthor] : t \in ClassifierTexts}
    \cup {[bookmark |-> Bookmark("post_1", t)] : t \in ClassifierTexts}

\* content_agent.process(sample_input)
ContentAnalysisProcess ==
  /\ operation = "none"
  /\ \E input_data \in AnalysisInputs, llm \in LLMReplies :
       /\ operation' = "ContentAnalysisAgent.process"
       /\ arguments' = [input_data |-> input_data, llm |-> llm]
       /\ returned' = content_analysis_process(input_data, llm, clock)
  /\ UNCHANGED <<pipeline_vars, exchanges, tasks, current, service_vars>>

SpecClassifier == Init /\ [][ContentAnalysisProcess]_vars

\* the texts discoveries are made for
ResolverTexts ==
  {TextUrl, TextEndToEnd, TextKeywords, TextMention, TextRepoMention, TextUserMention}

\* the input of a discovery: the classification of a bookmark, and a strategy
DiscoveryInputs ==
  { [content_analysis |->
       content_analysis_process([bookmark |-> Bookmark("post_1", t)],
                                [kind |-> "unavailable"], 0).data,
     discovery_strategy |-> s] :
    t \in ResolverTexts, s \in {"aggressive", "conservative"} }

\* the states of the author's account
AuthorStates ==
  { <<FALSE, <<>>>>,
    <<TRUE, << <<"project", "tool">>, <<"fork", "tool">>, <<"dotfiles", "starred">> >> >> }

\* the instants discoveries are made at
ResolverClocks == {0, SecondsPerDay}

\* GitHubDiscoveryAgent.process, called on its own: with the model not
\* configured whatever the hosting collaborator holds, and with every reply
\* of the model when the accounts of the logins are missing or hold the
\* project
GitHubDiscoveryProcess ==
  /\ operation = "none"
  /\ \E input_data \in DiscoveryInputs, author \in AuthorStates,
        other \in AccountStates, failing_call \in 0..MaxCalls,
        llm \in LLMSuggestions, now \in ResolverClocks :
       /\ \/ llm.kind = "unavailable"
          \/ /\ other \in {<<FALSE, <<>>>>, <<TRUE, << <<"project", "tool">> >> >>}
             /\ author[1] = FALSE
             /\ now = 0
       /\ operation' = "GitHubDiscoveryAgent.process"
       /\ arguments' = [input_data |-> input_data,
                        hosting |-> Hosting(author, other, failing_call),
                        llm |-> llm, now |-> now]
       /\ returned' = github_discovery_process(input_data,
                                               Hosting(author, other, failing_call),
                                               llm, now)
  /\ UNCHANGED <<pipeline_vars, exchanges, tasks, current, service_vars>>

SpecResolver == Init /\ [][GitHubDiscoveryProcess]_vars

\* The repositories selections are made from: confident and simple; of
\* confidence 0.7; of complexity 0.5; without complexity score; of
\* confidence 0.5; without confidence score; complex and fairly confident.
Candidates ==
  { [full_name |-> <<"a", "/", "s", "i", "m", "p", "l", "e">>, confidence_score |-> F0_9, complexity_score |-> F0_2],
    [full_name |-> <<"b", "/", "e", "d", "g", "e">>, confidence_score |-> F0_7, complexity_score |-> F0_2],
    [full_name |-> <<"c", "/", "h", "a", "l", "f">>, confidence_score |-> F0_9, complexity_score |-> F0_5],
    [full_name |-> <<"d", "/", "u", "n", "s", "c", "o", "r", "e", "d">>, confidence_score |-> F0_9],
    [full_name |-> <<"e", "/", "d", "o", "u", "b", "t">>, confidence_score |-> F0_5, complexity_score |-> F0_1],
    [full_name |-> <<"f", "/", "u", "n", "k", "n", "o", "w", "n">>, complexity_score |-> F0_1],
    [full_name |-> <<"g", "/", "c", "o", "m", "p", "l", "e", "x">>, confidence_score |-> F0_6, complexity_score |-> F0_8] }

\* the lists of at most MaxRepos candidates
RECURSIVE ListsOf(_, _)
ListsOf(S, n) ==
  IF n = 0 THEN {<<>>}
  ELSE ListsOf(S, n - 1) \cup {Append(l, x) : l \in ListsOf(S, n - 1), x \in S}

\* the values of max_repositories
MaxRepositories == -1..3

\* CodeExecutionAgent._select_repositories_for_execution, called on its own
SelectRepositoriesForExecution ==
  /\ operation = "none"
  /\ \E repositories \in ListsOf(Candidates, MaxRepos),
        strategy \in {"quick", "thorough", "balanced"},
        max_repos \in MaxRepositories :
       /\ operation' = "CodeExecutionAgent._select_repositories_for_execution"
       /\ arguments' = [repositories |-> repositories, strategy |-> strategy,
                        max_repos |-> max_repos]
       /\ returned' = select_repositories_for_execution(repositories, strategy, max_repos)
  /\ UNCHANGED <<pipeline_vars, exchanges, tasks, current, service_vars>>

SpecSelection == Init /\ [][SelectRepositoriesForExecution]_vars

(***************************************************************************)
(* Several calls of process_bookmark on one orchestrator, as               *)
(* handle_call_tool (server.py) awaits them: every call is a coroutine     *)
(* with its own locals, the event loop runs one coroutine at a time and    *)
(* changes coroutine at an await.  The clock and the collaborators are     *)
(* shared.                                                                 *)
(***************************************************************************)
\* the pipeline_config of test_pipeline
EndToEndConfig ==
  [discovery_strategy |-> "conservative", execution_strategy |-> "quick",
   synthesis_style |-> "summary", max_repositories |-> 1,
   timeout_per_agent |-> 30]

\* the coroutines of process_bookmark at one time
MaxRuns == 2

\* the running coroutine: its arguments, locals and position
Coroutine ==
  [id |-> current, pc |-> pc, bookmark_data |-> bookmark_data,
   pipeline_config |-> pipeline_config, config |-> config,
   pipeline_results |-> pipeline_results, start_time |-> start_time,
   content_analysis_data |-> content_analysis_data,
   github_discovery_data |-> github_discovery_data,
   discovered_repos |-> discovered_repos,
   code_execution_data |-> code_execution_data, awaited |-> awaited,
   in_progress |-> in_progress, invoked |-> invoked,
   stage_results |-> stage_results, report |-> report]

\* a coroutine of process_bookmark that has not run yet
NewCoroutine(id) ==
  [id |-> id, pc |-> "idle", bookmark_data |-> None, pipeline_config |-> None,
   config |-> Unbound, pipeline_results |-> Unbound, start_time |-> 0,
   content_analysis_data |-> Unbound, github_discovery_data |-> Unbound,
   discovered_repos |-> Unbound, code_execution_data |-> Unbound,
   awaited |-> Unbound, in_progress |-> {}, invoked |-> <<>>,
   stage_results |-> <<>>, report |-> Unbound]

\* the event loop runs coroutine c: all its locals but pipeline_results
RunLocals(c) ==
  /\ current' = c.id
  /\ pc' = c.pc
  /\ bookmark_data' = c.bookmark_data
  /\ pipeline_config' = c.pipeline_config
  /\ config' = c.config
  /\ start_time' = c.start_time
  /\ content_analysis_data' = c.content_analysis_data
  /\ github_discovery_data' = c.github_discovery_data
  /\ discovered_repos' = c.discovered_repos
  /\ code_execution_data' = c.code_execution_data
  /\ awaited' = c.awaited
  /\ in_progress' = c.in_progress
  /\ invoked' = c.invoked
  /\ stage_results' = c.stage_results
  /\ report' = c.report
  /\ UNCHANGED <<clock, operation, arguments, returned, exchanges, service_vars>>

\* handle_call_tool, lines 339-354: a further call of
\* process_bookmark_intelligent arrives while the coroutines that exist are
\* suspended at their awaits; its coroutine is created with fresh locals
HandleCallTool ==
  /\ pc # "idle"
  /\ Len(tasks) + 1 < MaxRuns
  /\ tasks' = Append(tasks, Coroutine)
  /\ RunLocals(NewCoroutine(Len(tasks) + 1))
  /\ pipeline_results' = Unbound

\* a resumption with the report under construction kept on the orchestrator
\* instead of in the coroutine: the resumed coroutine finds the one of the
\* coroutine that ran last
SwitchSharingResults(i) ==
  /\ pc # "idle"
  /\ tasks[i].pc \notin {"returned", "raised"}
  /\ tasks' = [tasks EXCEPT ![i] = Coroutine]
  /\ RunLocals(tasks[i])
  /\ UNCHANGED pipeline_results

\* the running coroutine is suspended at its await, or has returned, and
\* the event loop resumes the suspended coroutine tasks[i]
Switch(i) ==
  /\ pc # "idle"
  /\ tasks[i].pc \notin {"returned", "raised"}
  /\ tasks' = [tasks EXCEPT ![i] = Coroutine]
  /\ RunLocals(tasks[i])
  /\ pipeline_results' = tasks[i].pipeline_results

\* the bookmarks of the concurrent calls
ConcurrentBookmarks ==
  {Bookmark("post_1", TextEndToEnd), Bookmark("post_4", TextSunset),
   Bookmark("post_5", TextUrl)}

\* a call of process_bookmark for a bookmark no other coroutine has
ProcessBookmarkConcurrently ==
  \E b \in ConcurrentBookmarks :
    /\ \A i \in 1..Len(tasks) : tasks[i].bookmark_data # b
    /\ process_bookmark(b, EndToEndConfig)

\* what the hosting collaborator holds while the calls run: nothing, or
\* the project in every account
ConcurrentHostings ==
  { Hosting(<<FALSE, <<>>>>, <<FALSE, <<>>>>, 0),
    Hosting(<<TRUE, << <<"project", "tool">> >> >>, <<TRUE, << <<"project", "tool">> >> >>, 0) }

NextConcurrent ==
  \/ HandleCallTool
  \/ ProcessBookmarkConcurrently
  \/ \E i \in 1..Len(tasks) : Switch(i)
  \/ ContentAnalysisAnswers([kind |-> "unavailable"], 0)
  \/ \E hosting \in ConcurrentHostings :
       GithubDiscoveryAnswers(hosting, [kind |-> "unavailable"], 0)
  \/ \E run_ok \in BOOLEAN : CodeExecutionAnswers(run_ok, FALSE, 0)
  \/ \E failure \in BOOLEAN : ContentSynthesisAnswers(failure, 0)
  \/ DeadlineExpires

SpecConcurrent == Init /\ [][NextConcurrent]_vars

(***************************************************************************)
(* The content router (processors/router.py): ContentRouter.analyze_url,   *)
(* called on its own as test_url_routing calls it.                         *)
(***************************************************************************)
\* the position of the first character of class in s from position i on,
\* Len(s) + 1 if there is none
RECURSIVE find_any(_, _, _)
find_any(s, i, class) ==
  IF i > Len(s) \/ s[i] \in class THEN i ELSE find_any(s, i + 1, class)

\* s[i - 1:], the rest of s from position i on
from_pos(s, i) == SubSeq(s, i, Len(s))

\* the characters of a URL scheme
SchemeChars ==
  {LowerChars[i] : i \in 1..26} \cup {UpperChars[i] : i \in 1..26}
    \cup DigitChars \cup {"+", "-", "."}

\* urlsplit: the length of the scheme of url with its colon, 0 if url has
\* no scheme
scheme_len(url) ==
  LET colon == find_any(url, 1, {":"})
  IN  IF /\ colon > 1
         /\ colon <= Len(url)
         /\ is_cased(url[1])
         /\ \A i \in 1..(colon - 1) : url[i] \in SchemeChars
        THEN colon ELSE 0

\* urlsplit: the position after the network location of rest, which is what
\* follows '//' up to the first of '/', '?' and '#'
netloc_end(rest) ==
  IF startswith(rest, <<"/", "/">>) THEN find_any(rest, 3, {"/", "?", "#"}) ELSE 1

\* urlparse(url).netloc
netloc_of(url) ==
  LET rest == from_pos(url, scheme_len(url) + 1)
  IN  IF startswith(rest, <<"/", "/">>) THEN SubSeq(rest, 3, netloc_end(rest) - 1) ELSE <<>>

\* urlsplit raises ValueError("Invalid IPv6 URL") for a network location
\* with one bracket only
urlparse_raises(url) ==
  LET netloc == netloc_of(url)
  IN  (\E i \in 1..Len(netloc) : netloc[i] = "[") # (\E i \in 1..Len(netloc) : netloc[i] = "]")

\* the position of the last '/' of s, 0 if there is none
last_slash(s) ==
  IF \E i \in 1..Len(s) : s[i] = "/"
    THEN CHOOSE i \in 1..Len(s) : s[i] = "/" /\ \A j \in (i + 1)..Len(s) : s[j] # "/"
    ELSE 0

\* urlparse(url).path: what follows the network location up to the query
\* or fragment, without the parameters of its last segment
path_of(url) ==
  LET rest   == from_pos(url, scheme_len(url) + 1)
      after  == from_pos(rest, netloc_end(rest))
      whole  == SubSeq(after, 1, find_any(after, 1, {"?", "#"}) - 1)
  IN  SubSeq(whole, 1, find_any(whole, last_slash(whole) + 1, {";"}) - 1)

\* str.strip('/')
RECURSIVE lstrip(_, _)
lstrip(s, chars) ==
  IF s # <<>> /\ s[1] \in chars THEN lstrip(Tail(s), chars) ELSE s

strip(s, chars) == lstrip(rstrip(s, chars), chars)

\* str.split('/'): the pieces of s between the separators
RECURSIVE split(_, _)
split(s, sep) ==
  LET at == find_any(s, 1, {sep})
  IN  IF at > Len(s) THEN <<s>>
      ELSE <<SubSeq(s, 1, at - 1)>> \o split(from_pos(s, at + 1), sep)

\* re.search(r'[?&]v=([^&]+)', url): the group, <<>> for no match
video_id_of(url) ==
  LET at(i) == /\ url[i] \in {"?", "&"}
               /\ starts_at(url, i + 1, <<"v", "=">>)
               /\ run_len_not(url, i + 3, {"&"}) >= 1
      matches == {i \in 1..Len(url) : at(i)}
      first   == CHOOSE i \in matches : \A j \in matches : i <= j
  IN  IF matches = {} THEN <<>>
      ELSE SubSeq(url, first + 3, first + 2 + run_len_not(url, first + 3, {"&"}))

\* re.search(r'/status/(\d+)', path): the group, <<>> for no match
tweet_id_of(path) ==
  LET lit     == <<"/", "s", "t", "a", "t", "u", "s", "/">>
      matches == {i \in 1..Len(path) :
                    starts_at(path, i, lit) /\ run_len(path, i + 8, DigitChars) >= 1}
      first   == CHOOSE i \in matches : \A j \in matches : i <= j
  IN  IF matches = {} THEN <<>>
      ELSE SubSeq(path, first + 8, first + 7 + run_len(path, first + 8, DigitChars))

\* re.search(r'(\d+\.\d+)', path): the group, <<>> for no match
paper_id_of(path) ==
  LET whole(i) == run_len(path, i, DigitChars)
      at(i)    == /\ whole(i) >= 1
                  /\ starts_at(path, i + whole(i), <<".">>)
                  /\ run_len(path, i + whole(i) + 1, DigitChars) >= 1
      matches  == {i \in 1..Len(path) : at(i)}
      first    == CHOOSE i \in matches : \A j \in matches : i <= j
  IN  IF matches = {} THEN <<>>
      ELSE SubSeq(path, first,
                  first + whole(first) + run_len(path, first + whole(first) + 1, DigitChars))

\* ContentRouter._get_pipeline_for_type
get_pipeline_for_type(content_type) ==
  IF content_type = "github" THEN "github_codespace"
  ELSE IF content_type = "youtube" THEN "youtube_transcription"
  ELSE "notion_save"

\* ContentRouter.analyze_url: the content type
content_type_of(domain) ==
  IF contains(domain, <<"g", "i", "t", "h", "u", "b", ".", "c", "o", "m">>) THEN "github"
  ELSE IF contains(domain, <<"y", "o", "u", "t", "u", "b", "e", ".", "c", "o", "m">>) \/ contains(domain, <<"y", "o", "u", "t", "u", ".", "b", "e">>) THEN "youtube"
  ELSE IF contains(domain, <<"t", "w", "i", "t", "t", "e", "r", ".", "c", "o", "m">>) \/ contains(domain, <<"x", ".", "c", "o", "m">>) THEN "twitter"
  ELSE IF any_in(<<<<"m", "e", "d", "i", "u", "m", ".", "c", "o", "m">>, <<"d", "e", "v", ".", "t", "o">>, <<"h", "a", "s", "h", "n", "o", "d", "e", ".", "d", "e", "v">>>>, domain) THEN "article"
  ELSE IF contains(domain, <<"a", "r", "x", "i", "v", ".", "o", "r", "g">>) THEN "paper"
  ELSE IF contains(domain, <<"r", "e", "d", "d", "i", "t", ".", "c", "o", "m">>) THEN "reddit"
  ELSE "general"

\* ContentRouter.analyze_url: the metadata of a content type
url_metadata(url, domain, path, content_type) ==
  LET base  == [domain |-> domain, path |-> path, full_url |-> url]
      parts == split(strip(path, {"/"}), "/")
  IN  IF content_type = "github"
        THEN IF Len(parts) >= 2
               THEN Merge(base, [owner |-> parts[1], repo |-> parts[2],
                                 is_repo |-> Len(parts) = 2, is_file |-> Len(parts) > 2])
               ELSE base
      ELSE IF content_type = "youtube"
        THEN IF contains(domain, <<"y", "o", "u", "t", "u", ".", "b", "e">>)
               THEN Merge(base, [video_id |-> strip(path, {"/"})])
             ELSE IF contains(path, <<"w", "a", "t", "c", "h">>) /\ video_id_of(url) # <<>>
               THEN Merge(base, [video_id |-> video_id_of(url)])
             ELSE base
      ELSE IF content_type = "twitter"
        THEN IF tweet_id_of(path) # <<>>
               THEN Merge(base, [tweet_id |-> tweet_id_of(path)])
               ELSE base
      ELSE IF content_type = "paper"
        THEN IF paper_id_of(path) # <<>>
               THEN Merge(base, [paper_id |-> paper_id_of(path)])
               ELSE base
      ELSE base

\* ContentRouter.analyze_url from the parsed URL on
analysis_of(url, domain, path, content_type) ==
  [success |-> TRUE, url |-> url, content_type |-> content_type,
   metadata |-> url_metadata(url, domain, path, content_type),
   processing_pipeline |-> get_pipeline_for_type(content_type)]

\* ContentRouter.analyze_url
analyze_url(url) ==
  IF urlparse_raises(url)
    THEN [success |-> FALSE, error |-> "Invalid IPv6 URL", url |-> url]
    ELSE analysis_of(url, lower(netloc_of(url)), lower(path_of(url)),
                     content_type_of(lower(netloc_of(url))))

\* The URLs analyze_url is called with: those of test_url_routing, and the
\* combinations of a scheme, a host and a path.
UrlSchemes == {<<"h", "t", "t", "p", "s", ":", "/", "/">>, <<"h", "t", "t", "p", ":", "/", "/">>, <<>>}

UrlHosts ==
  {<<"g", "i", "t", "h", "u", "b", ".", "c", "o", "m">>, <<"w", "w", "w", ".", "g", "i", "t", "h", "u", "b", ".", "c", "o", "m">>, <<"g", "i", "s", "t", ".", "g", "i", "t", "h", "u", "b", ".", "c", "o", "m">>, <<"G", "i", "t", "H", "u", "b", ".", "c", "o", "m">>,
   <<"y", "o", "u", "t", "u", "b", "e", ".", "c", "o", "m">>, <<"w", "w", "w", ".", "y", "o", "u", "t", "u", "b", "e", ".", "c", "o", "m">>, <<"y", "o", "u", "t", "u", ".", "b", "e">>,
   <<"t", "w", "i", "t", "t", "e", "r", ".", "c", "o", "m">>, <<"x", ".", "c", "o", "m">>, <<"m", "e", "d", "i", "u", "m", ".", "c", "o", "m">>, <<"d", "e", "v", ".", "t", "o">>, <<"h", "a", "s", "h", "n", "o", "d", "e", ".", "d", "e", "v">>,
   <<"b", "l", "o", "g", ".", "h", "a", "s", "h", "n", "o", "d", "e", ".", "d", "e", "v">>, <<"a", "r", "x", "i", "v", ".", "o", "r", "g">>, <<"r", "e", "d", "d", "i", "t", ".", "c", "o", "m">>, <<"o", "l", "d", ".", "r", "e", "d", "d", "i", "t", ".", "c", "o", "m">>,
   <<"e", "x", "a", "m", "p", "l", "e", ".", "c", "o", "m">>, <<"n", "e", "t", "f", "l", "i", "x", ".", "c", "o", "m">>, <<"d", "r", "o", "p", "b", "o", "x", ".", "c", "o", "m">>, <<"d", "e", "v", ".", "t", "o", "o", "l", "s">>, <<"[", ":", ":", "1">>}

UrlPaths ==
  {<<>>, <<"/">>, <<"/", "a", "n", "t", "h", "r", "o", "p", "i", "c", "s", "/", "c", "l", "a", "u", "d", "e", "-", "c", "o", "d", "e">>, <<"/", "a", "/", "b", "/", "b", "l", "o", "b", "/", "m", "a", "i", "n", "/", "x", ".", "p", "y">>,
   <<"/", "w", "a", "t", "c", "h", "?", "v", "=", "d", "Q", "w", "4", "w", "9", "W", "g", "X", "c", "Q">>, <<"/", "s", "t", "a", "t", "u", "s", "/", "1", "2", "3", "4", "5", "6">>, <<"/", "a", "b", "s", "/", "2", "3", "0", "1", ".", "0", "0", "0", "0", "1">>, <<"/", "a", "r", "t", "i", "c", "l", "e">>}

Urls == {scheme \o host \o path : scheme \in UrlSchemes, host \in UrlHosts, path \in UrlPaths}

\* router.analyze_url(url)
AnalyzeUrl ==
  /\ operation = "none"
  /\ \E url \in Urls :
       /\ operation' = "ContentRouter.analyze_url"
       /\ arguments' = [url |-> url]
       /\ returned' = analyze_url(url)
  /\ UNCHANGED <<pipeline_vars, exchanges, tasks, current, service_vars>>

SpecAnalyzeUrl == Init /\ [][AnalyzeUrl]_vars

(***************************************************************************)
(* The sandbox runner in detail: E2BTools.analyze_and_run_project           *)
(* (tools/e2b.py) and CodeExecutionAgent (agents/code_execution_agent.py)  *)
(* with the sandbox collaborator and the language model as environment.    *)
(***************************************************************************)
\* What propagates instead of a return value when a call is cancelled:
\* asyncio.CancelledError is a BaseException, which no 'except Exception'
\* of the runner catches.
Cancelled == [py_cancelled |-> TRUE]

IsCancelled(x) == "py_cancelled" \in DOMAIN x

\* a JSON array where a text is expected, and its test
ListStr(l) == <<"py_list">> \o l

IsListStr(x) == x # <<>> /\ x[1] = "py_list"

\* str(n) for an int n >= 0
RECURSIVE str_int(_)
str_int(n) ==
  LET digit == <<"0", "1", "2", "3", "4", "5", "6", "7", "8", "9">>[(n % 10) + 1]
  IN  IF n < 10 THEN <<digit>> ELSE Append(str_int(n \div 10), digit)

\* sep.join(l)
RECURSIVE join(_, _)
join(sep, l) ==
  IF l = <<>> THEN <<>>
  ELSE IF Len(l) = 1 THEN l[1]
  ELSE l[1] \o sep \o join(sep, Tail(l))

\* how an f-string shows a value: a text as it is, None as None, a list of
\* texts as its repr
format(x) ==
  IF IsNoneStr(x) THEN <<"N", "o", "n", "e">>
  ELSE IF IsListStr(x)
    THEN <<"[">> \o join(<<",", " ">>, [i \in 1..(Len(x) - 1) |-> <<"'">> \o x[i + 1] \o <<"'">>]) \o <<"]">>
  ELSE x

\* E2BTools._parse_repo_url, first pattern: a match of
\* github\.com[/:]([^/]+)/([^/\s]+?)(?:\.git)?(?:/.*)?$ starting at i
repo_url_match_at(url, i) ==
  LET owner     == i + 11
      owner_len == run_len_not(url, owner, {"/"})
      repo      == owner + owner_len + 1
      repo_len  == run_len_not(url, repo, {"/"} \cup Whitespace)
      after     == repo + repo_len
  IN  /\ starts_at(url, i, <<"g", "i", "t", "h", "u", "b", ".", "c", "o", "m">>)
      /\ i + 10 <= Len(url)
      /\ url[i + 10] \in {"/", ":"}
      /\ owner_len >= 1
      /\ owner + owner_len <= Len(url)
      /\ repo_len >= 1
      /\ \/ dollar(url, after)
         \/ /\ url[after] = "/"
            /\ \A j \in (after + 1)..(Len(url) - 1) : url[j] # "\n"

\* E2BTools._parse_repo_url, second pattern: a match of
\* raw\.githubusercontent\.com/([^/]+)/([^/]+) starting at i
raw_url_match_at(url, i) ==
  LET owner     == i + 26
      owner_len == run_len_not(url, owner, {"/"})
  IN  /\ starts_at(url, i, <<"r", "a", "w", ".", "g", "i", "t", "h", "u", "b", "u", "s", "e", "r", "c", "o", "n", "t", "e", "n", "t", ".", "c", "o", "m", "/">>)
      /\ owner_len >= 1
      /\ owner + owner_len < Len(url)

\* E2BTools._parse_repo_url: whether the URL is parsed (the owner and the
\* repository it names are only logged)
parse_repo_url(url) ==
  \E i \in 1..Len(url) : repo_url_match_at(url, i) \/ raw_url_match_at(url, i)

\* E2BTools._detect_project_type
detect_project_type(repo_url) ==
  LET repo_lower == lower(repo_url)
  IN  IF any_in(<<<<"p", "y", "t", "h", "o", "n">>, <<"p", "y">>, <<"d", "j", "a", "n", "g", "o">>, <<"f", "l", "a", "s", "k">>>>, repo_lower) THEN "python3"
      ELSE IF any_in(<<<<"n", "o", "d", "e">>, <<"j", "s">>, <<"r", "e", "a", "c", "t">>, <<"v", "u", "e">>, <<"n", "e", "x", "t">>>>, repo_lower) THEN "node"
      ELSE IF contains(repo_lower, <<"r", "u", "s", "t">>) THEN "rust"
      ELSE IF any_in(<<<<"g", "o">>, <<"g", "o", "l", "a", "n", "g">>>>, repo_lower) THEN "go"
      ELSE "python3"

\* What Sandbox.run_code does: it returns an execution with its stdout, or
\* raises an error, or the call is cancelled.
Ran(stdout) == [raised |-> "no", stdout |-> stdout]

Raises(message) == [raised |-> "error", error |-> message]

CancelledCall == [raised |-> "cancelled"]

\* eval(analysis.stdout.strip()): the analysis script prints json.dumps of
\* a dict with the booleans has_readme and has_tests, which JSON writes
\* true and false: eval raises NameError for them, and SyntaxError for no
\* output; only an output that is a Python literal gives a value
eval_raises(stdout) == stdout.format # "python"

\* the project analysis analyze_and_run_project goes on with
project_analysis_of(stdout) ==
  IF eval_raises(stdout) THEN [project_type |-> <<"u", "n", "k", "n", "o", "w", "n">>] ELSE stdout.value

\* E2BTools._install_dependencies
install_dependencies(sandbox, analysis) ==
  LET project_type == get(analysis, "project_type", <<"u", "n", "k", "n", "o", "w", "n">>)
  IN  IF project_type \in {<<"p", "y", "t", "h", "o", "n">>, <<"n", "o", "d", "e">>}
        THEN IF sandbox.install.raised = "cancelled" THEN Cancelled
             ELSE IF sandbox.install.raised = "error"
               THEN [output |-> <<"D", "e", "p", "e", "n", "d", "e", "n", "c", "y", " ", "i", "n", "s", "t", "a", "l", "l", "a", "t", "i", "o", "n", " ", "f", "a", "i", "l", "e", "d", ":", " ">> \o sandbox.install.error]
             ELSE [output |-> sandbox.install.stdout]
      ELSE [output |-> <<"N", "o", " ", "d", "e", "p", "e", "n", "d", "e", "n", "c", "y", " ", "i", "n", "s", "t", "a", "l", "l", "a", "t", "i", "o", "n", " ", "n", "e", "e", "d", "e", "d">>]

\* E2BTools._run_main_file: the first of main.py, app.py, index.js and
\* main.js among the main files is run, for a Python or Node project
run_main_file(sandbox, analysis) ==
  LET main_files   == get(analysis, "main_files", <<>>)
      project_type == get(analysis, "project_type", <<"u", "n", "k", "n", "o", "w", "n">>)
      likely       == <<<<"m", "a", "i", "n", ".", "p", "y">>, <<"a", "p", "p", ".", "p", "y">>, <<"i", "n", "d", "e", "x", ".", "j", "s">>, <<"m", "a", "i", "n", ".", "j", "s">>>>
      present      == {i \in 1..4 : \E j \in 1..Len(main_files) : main_files[j] = likely[i]}
  IN  IF main_files = <<>> THEN [output |-> <<"N", "o", " ", "m", "a", "i", "n", " ", "f", "i", "l", "e", "s", " ", "f", "o", "u", "n", "d", " ", "t", "o", " ", "e", "x", "e", "c", "u", "t", "e">>]
      ELSE IF present = {} \/ project_type \notin {<<"p", "y", "t", "h", "o", "n">>, <<"n", "o", "d", "e">>}
        THEN [output |-> <<"C", "o", "u", "l", "d", " ", "n", "o", "t", " ", "d", "e", "t", "e", "r", "m", "i", "n", "e", " ", "h", "o", "w", " ", "t", "o", " ", "r", "u", "n", " ", "t", "h", "e", " ", "p", "r", "o", "j", "e", "c", "t">>]
      ELSE IF sandbox.run.raised = "cancelled" THEN Cancelled
      ELSE IF sandbox.run.raised = "error"
        THEN [output |-> <<"E", "x", "e", "c", "u", "t", "i", "o", "n", " ", "f", "a", "i", "l", "e", "d", ":", " ">> \o sandbox.run.error]
      ELSE [output |-> sandbox.run.stdout]

\* E2BTools.analyze_and_run_project, the body of 'try: ... finally:
\* sandbox.close()': what it returns, raises or is cancelled with
run_in_sandbox(repo_url, auto_install, template, sandbox, sandbox_id) ==
  LET ended(project_analysis, install, run) ==
        IF sandbox.analysis.raised # "no" THEN sandbox.analysis
        ELSE IF IsCancelled(install) \/ IsCancelled(run) THEN CancelledCall
        ELSE [raised |-> "no",
              value |-> [success |-> TRUE, repo_url |-> repo_url,
                         analysis |-> project_analysis,
                         install_output |-> install.output,
                         run_output |-> run.output,
                         template |-> template, sandbox_id |-> sandbox_id]]
      analysed(project_analysis) ==
        ended(project_analysis,
              IF auto_install THEN install_dependencies(sandbox, project_analysis)
              ELSE [output |-> <<>>],
              run_main_file(sandbox, project_analysis))
  IN  analysed(project_analysis_of(sandbox.analysis.stdout))

\* the 'finally' of analyze_and_run_project: the sandbox is closed however
\* the body ended
close_on_return_only(events, sandbox_id, ended) ==
  IF ended.raised = "no" THEN Append(events, <<"close", sandbox_id>>) ELSE events

close(events, sandbox_id, ended) == Append(events, <<"close", sandbox_id>>)

\* E2BTools.analyze_and_run_project: its return value (Cancelled when the
\* call is cancelled) and the sandboxes it created and closed, in order
analyze_and_run_project(repo_url, auto_install, e2b_api_key, sandbox, sandbox_id) ==
  LET closed(ended, events) ==
        IF ended.raised = "cancelled" THEN [value |-> Cancelled, events |-> events]
        ELSE IF ended.raised = "error"
          THEN [value |-> [success |-> FALSE, error |-> ended.error], events |-> events]
        ELSE [value |-> ended.value, events |-> events]
      created(ended) ==
        closed(ended, close(<< <<"create", sandbox_id>> >>, sandbox_id, ended))
  IN  IF e2b_api_key = NoneStr
        THEN [value |-> [success |-> FALSE, error |-> <<"E", "2", "B", " ", "A", "P", "I", " ", "k", "e", "y", " ", "n", "o", "t", " ", "c", "o", "n", "f", "i", "g", "u", "r", "e", "d">>],
              events |-> <<>>]
      ELSE IF ~parse_repo_url(repo_url)
        THEN [value |-> [success |-> FALSE, error |-> <<"I", "n", "v", "a", "l", "i", "d", " ", "G", "i", "t", "H", "u", "b", " ", "U", "R", "L", ":", " ">> \o repo_url],
              events |-> <<>>]
      ELSE IF sandbox.create.raised = "cancelled" THEN [value |-> Cancelled, events |-> <<>>]
      ELSE IF sandbox.create.raised = "error"
        THEN [value |-> [success |-> FALSE, error |-> sandbox.create.error], events |-> <<>>]
      ELSE created(run_in_sandbox(repo_url, auto_install, detect_project_type(repo_url),
                                  sandbox, sandbox_id))

\* CodeExecutionAgent._extract_insights
extract_insights(repo, analysis, install_output, run_output) ==
  LET dependencies == get(analysis, "dependencies", <<>>)
      project_type == get(analysis, "project_type", NoneStr)
      exit_code_0  == <<"e", "x", "i", "t", " ", "c", "o", "d", "e", ":", " ", "0">>
  IN  [project_type |-> get(analysis, "project_type", <<"u", "n", "k", "n", "o", "w", "n">>),
       has_dependencies |-> dependencies # <<>>,
       dependency_count |-> Len(dependencies),
       installation_successful |->
         contains(lower(install_output), <<"s", "u", "c", "c", "e", "s", "s", "f", "u", "l", "l", "y">>) \/ contains(install_output, exit_code_0),
       execution_successful |->
         contains(run_output, exit_code_0) \/ Len(strip(run_output, Whitespace)) > 0,
       has_output |-> strip(run_output, Whitespace) # <<>>,
       complexity_indicators |->
         (IF Len(dependencies) > 10 THEN <<"many_dependencies">> ELSE <<>>)
           \o (IF get(repo, "size", 0) > 5000 THEN <<"large_codebase">> ELSE <<>>),
       technology_stack |->
         (IF IsNoneStr(project_type) \/ project_type = <<>> THEN <<>> ELSE <<project_type>>)
           \o head(dependencies, 5)]

\* CodeExecutionAgent._basic_functionality_analysis raises AttributeError
\* for a repository whose description is None
basic_functionality_raises(repo) == IsNoneStr(get(repo, "description", <<>>))

\* CodeExecutionAgent._basic_functionality_analysis
basic_functionality_analysis(repo, analysis, run_output) ==
  LET description  == lower(get(repo, "description", <<>>))
      project_type == get(analysis, "project_type", <<"u", "n", "k", "n", "o", "w", "n">>)
      category ==
        IF any_in(<<<<"a", "p", "i">>, <<"s", "e", "r", "v", "e", "r">>, <<"w", "e", "b">>>>, description) THEN <<"w", "e", "b", "_", "a", "p", "p">>
        ELSE IF any_in(<<<<"c", "l", "i">>, <<"c", "o", "m", "m", "a", "n", "d">>, <<"t", "o", "o", "l">>>>, description) THEN <<"c", "l", "i", "_", "t", "o", "o", "l">>
        ELSE IF any_in(<<<<"l", "i", "b", "r", "a", "r", "y">>, <<"p", "a", "c", "k", "a", "g", "e">>, <<"m", "o", "d", "u", "l", "e">>>>, description) THEN <<"l", "i", "b", "r", "a", "r", "y">>
        ELSE IF project_type = <<"p", "y", "t", "h", "o", "n">> /\ contains(description, <<"s", "c", "r", "i", "p", "t">>) THEN <<"s", "c", "r", "i", "p", "t">>
        ELSE <<"a", "p", "p", "l", "i", "c", "a", "t", "i", "o", "n">>
  IN  [primary_function |-> get(repo, "description", <<"C", "o", "d", "e", " ", "e", "x", "e", "c", "u", "t", "i", "o", "n", " ", "a", "n", "d", " ", "a", "n", "a", "l", "y", "s", "i", "s">>),
       category |-> category,
       use_cases |-> <<<<"L", "e", "a", "r", "n", "i", "n", "g", " ">> \o project_type \o <<" ", "d", "e", "v", "e", "l", "o", "p", "m", "e", "n", "t">>, <<"C", "o", "d", "e", " ", "r", "e", "f", "e", "r", "e", "n", "c", "e">>>>,
       notable_features |-> <<<<"W", "r", "i", "t", "t", "e", "n", " ", "i", "n", " ">> \o project_type>>,
       complexity_level |-> <<"i", "n", "t", "e", "r", "m", "e", "d", "i", "a", "t", "e">>]

\* What the language model does when asked for the functionality: it is
\* not configured, the query raises, or it replies with a text, which is
\* JSON ('json' with the value json.loads gives) or not ('text').
\* CodeExecutionAgent._determine_functionality: its value, or that it raises
determine_functionality(repo, analysis, run_output, llm) ==
  IF llm.kind = "json" THEN [raised |-> FALSE, value |-> llm.value]
  ELSE IF basic_functionality_raises(repo) THEN [raised |-> TRUE]
  ELSE [raised |-> FALSE, value |-> basic_functionality_analysis(repo, analysis, run_output)]

\* CodeExecutionAgent._extract_learnings
extract_learnings(execution_result, repo) ==
  LET analysis     == get(execution_result, "analysis", EmptyDict)
      project_type == get(analysis, "project_type", NoneStr)
      dependencies == get(analysis, "dependencies", <<>>)
      stars        == get(repo, "stargazers_count", 0)
  IN  (IF ~IsNoneStr(project_type) /\ project_type # <<>> /\ project_type # <<"u", "n", "k", "n", "o", "w", "n">>
         THEN <<<<"P", "r", "o", "j", "e", "c", "t", " ", "u", "s", "e", "s", " ">> \o project_type>> ELSE <<>>)
      \o (IF dependencies # <<>>
            THEN <<<<"U", "s", "e", "s", " ">> \o str_int(Len(dependencies)) \o <<" ", "d", "e", "p", "e", "n", "d", "e", "n", "c", "i", "e", "s", " ", "i", "n", "c", "l", "u", "d", "i", "n", "g", " ">>
                     \o dependencies[1]>>
            ELSE <<>>)
      \o (IF get(execution_result, "install_output", <<>>) # <<>>
            THEN <<<<"H", "a", "s", " ", "a", "u", "t", "o", "m", "a", "t", "e", "d", " ", "d", "e", "p", "e", "n", "d", "e", "n", "c", "y", " ", "i", "n", "s", "t", "a", "l", "l", "a", "t", "i", "o", "n">>>> ELSE <<>>)
      \o (IF get(execution_result, "run_output", <<>>) # <<>>
            THEN <<<<"C", "o", "d", "e", " ", "e", "x", "e", "c", "u", "t", "e", "s", " ", "s", "u", "c", "c", "e", "s", "s", "f", "u", "l", "l", "y">>>> ELSE <<>>)
      \o (IF stars > 100
            THEN <<<<"P", "o", "p", "u", "l", "a", "r", " ", "p", "r", "o", "j", "e", "c", "t", " ", "w", "i", "t", "h", " ">> \o str_int(stars) \o <<" ", "s", "t", "a", "r", "s">>>> ELSE <<>>)

\* CodeExecutionAgent._create_execution_summary
create_execution_summary(repo, analysis, insights, functionality) ==
  format(repo.name) \o <<" ", "i", "s", " ", "a", " ">> \o format(get(analysis, "project_type", <<"u", "n", "k", "n", "o", "w", "n">>)) \o <<" ">>
    \o format(get(functionality, "category", <<"a", "p", "p", "l", "i", "c", "a", "t", "i", "o", "n">>)) \o <<".", " ">>
    \o format(get(functionality, "primary_function", <<"U", "n", "k", "n", "o", "w", "n", " ", "f", "u", "n", "c", "t", "i", "o", "n", "a", "l", "i", "t", "y">>))
    \o (IF insights.execution_successful
          THEN <<" ", "T", "h", "e", " ", "c", "o", "d", "e", " ", "e", "x", "e", "c", "u", "t", "e", "d", " ", "s", "u", "c", "c", "e", "s", "s", "f", "u", "l", "l", "y">>
                 \o (IF insights.has_output THEN <<" ", "a", "n", "d", " ", "p", "r", "o", "d", "u", "c", "e", "d", " ", "o", "u", "t", "p", "u", "t">> ELSE <<>>) \o <<".">>
          ELSE <<" ", "T", "h", "e", "r", "e", " ", "w", "e", "r", "e", " ", "i", "s", "s", "u", "e", "s", " ", "d", "u", "r", "i", "n", "g", " ", "e", "x", "e", "c", "u", "t", "i", "o", "n", ".">>)
    \o (IF insights.dependency_count > 0
          THEN <<" ", "I", "t", " ", "h", "a", "s", " ">> \o str_int(insights.dependency_count) \o <<" ", "d", "e", "p", "e", "n", "d", "e", "n", "c", "i", "e", "s", ".">>
          ELSE <<>>)

\* a value json.loads gives that is no dict has no get method
IsDict(value) == "py_list" \notin DOMAIN value /\ ~IsNone(value)

\* CodeExecutionAgent._enhance_execution_result: whatever raises inside it
\* is caught, and the execution result is returned as it was
enhance_execution_result(execution_result, repo, strategy, llm) ==
  LET analysis   == get(execution_result, "analysis", EmptyDict)
      run_output == get(execution_result, "run_output", <<>>)
      enhanced(insights, functionality) ==
        IF functionality.raised THEN execution_result
        ELSE IF ~IsDict(functionality.value) THEN execution_result
        ELSE Merge(execution_result,
                   [insights |-> insights,
                    functionality |-> functionality.value,
                    learnings |-> extract_learnings(execution_result, repo),
                    execution_summary |->
                      create_execution_summary(repo, analysis, insights,
                                               functionality.value)])
  IN  enhanced(extract_insights(repo, analysis,
                                get(execution_result, "install_output", <<>>), run_output),
               determine_functionality(repo, analysis, run_output, llm))

\* CodeExecutionAgent._execute_repository: its return value (Cancelled when
\* it is cancelled) and the sandboxes created and closed
execute_repository(repo, strategy, e2b_api_key, sandbox, sandbox_id, llm) ==
  LET executed(ran) ==
        IF IsCancelled(ran.value) THEN ran
        ELSE IF ~ran.value.success THEN ran
        ELSE [value |-> enhance_execution_result(ran.value, repo, strategy, llm),
              events |-> ran.events]
  IN  IF ~HasKey(repo, "html_url")
        THEN [value |-> [success |-> FALSE, error |-> <<"'", "h", "t", "m", "l", "_", "u", "r", "l", "'">>, repo_url |-> NoneStr],
              events |-> <<>>]
      ELSE executed(analyze_and_run_project(repo.html_url, TRUE, e2b_api_key, sandbox,
                                            sandbox_id))

\* CodeExecutionAgent.process, the loop over the selected repositories from
\* the i-th on: the execution results, the sandboxes created and closed,
\* and how the loop ended: "done", "cancelled" or the KeyError raised for a
\* repository without full name or name (outside the handler of the loop,
\* or inside it again)
RECURSIVE execute_from(_, _, _, _, _, _, _)
execute_from(repos, i, strategy, e2b_api_key, sandboxes, llm, done) ==
  IF i > Len(repos) THEN Merge(done, [ended |-> "done"])
  ELSE IF ~HasKey(repos[i], "full_name") THEN Merge(done, [ended |-> "'full_name'"])
  ELSE LET enhanced_result(repo, execution) ==
             Merge(execution.value,
                   [repository_metadata |->
                      [name |-> repo.name,
                       full_name |-> repo.full_name,
                       description |-> get(repo, "description", NoneStr),
                       language |-> get(repo, "language", NoneStr),
                       stars |-> get(repo, "stargazers_count", 0),
                       confidence_score |-> get(repo, "confidence_score", 0),
                       discovery_method |-> get(repo, "discovery_method", NoneStr),
                       relevance_indicators |-> get(repo, "relevance_indicators", <<>>)]])
           recorded(repo, execution, events) ==
             IF IsCancelled(execution.value)
               THEN [results |-> done.results, events |-> events, ended |-> "cancelled"]
             ELSE IF ~HasKey(repo, "name")
               THEN [results |-> done.results, events |-> events, ended |-> "'name'"]
             ELSE execute_from(repos, i + 1, strategy, e2b_api_key, sandboxes, llm,
                               [results |-> Append(done.results,
                                                   enhanced_result(repo, execution)),
                                events |-> events])
           executed(repo, execution) ==
             recorded(repo, execution, done.events \o execution.events)
       IN  executed(repos[i],
                    execute_repository(repos[i], strategy, e2b_api_key, sandboxes[i], i, llm))

\* the successful ones of the execution results
successful(execution_results) ==
  SelectSeq(execution_results, LAMBDA r : get(r, "success", FALSE))

\* CodeExecutionAgent._analyze_execution_results raises TypeError when the
\* category or the complexity level of a successful result cannot be hashed
analysis_raises(execution_results) ==
  \E i \in 1..Len(successful(execution_results)) :
     LET functionality == get(successful(execution_results)[i], "functionality", EmptyDict)
     IN  \/ IsListStr(get(functionality, "category", NoneStr))
         \/ IsListStr(get(functionality, "complexity_level", NoneStr))

\* CodeExecutionAgent._analyze_complexity
analyze_complexity(results) ==
  LET level(r) == get(get(r, "functionality", EmptyDict), "complexity_level", <<"u", "n", "k", "n", "o", "w", "n">>)
      levels   == {level(results[i]) : i \in 1..Len(results)}
  IN  [l \in levels |-> Cardinality({i \in 1..Len(results) : level(results[i]) = l})]

\* CodeExecutionAgent._analyze_execution_results; list(set(...)) gives its
\* elements in an order of no meaning, it is kept as the set
analyze_execution_results(execution_results) ==
  LET successful_results == successful(execution_results)
      n == Len(successful_results)
      insights(i)      == get(successful_results[i], "insights", EmptyDict)
      functionality(i) == get(successful_results[i], "functionality", EmptyDict)
  IN  IF execution_results = <<>> THEN [message |-> "No execution results to analyze"]
      ELSE [total_repositories |-> Len(execution_results),
            successful_executions |-> n,
            success_rate |-> f_div_int(n, Len(execution_results)),
            project_types_found |->
              {get(insights(i), "project_type", NoneStr) : i \in 1..n} \ {NoneStr, <<>>},
            categories_found |->
              {get(functionality(i), "category", NoneStr) : i \in 1..n} \ {NoneStr, <<>>},
            technologies_used |->
              UNION {Range(get(insights(i), "technology_stack", <<>>)) : i \in 1..n},
            has_runnable_code |->
              \E i \in 1..n : get(insights(i), "execution_successful", FALSE),
            complexity_distribution |-> analyze_complexity(successful_results)]

\* CodeExecutionAgent.process, after the loop
execution_data_for(execution_results, repos_to_execute, strategy) ==
  [execution_results |-> execution_results,
   total_executed |-> Len(repos_to_execute),
   successful_executions |-> Len(successful(execution_results)),
   execution_strategy |-> strategy,
   analysis |-> analyze_execution_results(execution_results),
   has_runnable_code |->
     \E i \in 1..Len(successful(execution_results)) :
        get(get(successful(execution_results)[i], "analysis", EmptyDict),
            "project_type", NoneStr) # <<"u", "n", "k", "n", "o", "w", "n">>]

\* CodeExecutionAgent.process with its collaborators: what it returns
\* (Cancelled when it is cancelled) and the sandboxes created and closed
execute_repositories(input_data, e2b_api_key, sandboxes, llm, now) ==
  LET github_discovery == get(input_data, "github_discovery", EmptyDict)
      strategy         == get(input_data, "execution_strategy", "quick")
      max_repos        == get(input_data, "max_repositories", 3)
      discovered       == get(github_discovery, "discovered_repositories", <<>>)
      after(repos_to_execute, loop) ==
        IF loop.ended = "cancelled" THEN [value |-> Cancelled, events |-> loop.events]
        ELSE IF loop.ended # "done"
          THEN [value |-> create_result("CodeExecutionAgent", FALSE, None, loop.ended, now),
                events |-> loop.events]
        ELSE IF analysis_raises(loop.results)
          THEN [value |-> create_result("CodeExecutionAgent", FALSE, None,
                                        "unhashable type: 'list'", now),
                events |-> loop.events]
        ELSE [value |-> create_result("CodeExecutionAgent", TRUE,
                                      execution_data_for(loop.results, repos_to_execute,
                                                         strategy),
                                      "", now),
              events |-> loop.events]
      selected(repos_to_execute) ==
        after(repos_to_execute,
              execute_from(repos_to_execute, 1, strategy, e2b_api_key, sandboxes, llm,
                           [results |-> <<>>, events |-> <<>>]))
  IN  IF discovered = <<>>
        THEN [value |-> create_result("CodeExecutionAgent", TRUE,
                                      [execution_results |-> <<>>,
                                       message |-> "No repositories to execute"], "", now),
              events |-> <<>>]
      ELSE selected(select_repositories_for_execution(discovered, strategy, max_repos))

\* The repositories the runner is given, as _validate_repository returns
\* them: alice/tool, alice/notes (description and language null, with a
\* wiki) and alice/www.
Validated(repo_json) ==
  validated_repository([raised |-> FALSE, status_code |-> 200, json |-> repo_json],
                       [endpoint |-> "repos"], <<>>, StartDay).repos[1]

ExecutableRepos ==
  <<Validated(RepoJson(<<"a", "l", "i", "c", "e">>, <<"t", "o", "o", "l">>, "tool")),
    Validated(Merge(RepoJson(<<"a", "l", "i", "c", "e">>, <<"n", "o", "t", "e", "s">>, "bare"), [has_wiki |-> TRUE])),
    Validated(RepoJson(<<"a", "l", "i", "c", "e">>, <<"w", "w", "w">>, "server"))>>

\* the ranked lists the discovery hands over
DiscoveredLists ==
  LET lists(repos) == <<<<>>, <<repos[1]>>, <<repos[2], repos[1]>>, repos>>
  IN  lists(ExecutableRepos)

\* What the analysis script prints: the JSON of the analysis, or (a sandbox
\* that prints the dict itself) a Python literal.
PythonProject ==
  [project_type |-> <<"p", "y", "t", "h", "o", "n">>, main_files |-> <<<<"m", "a", "i", "n", ".", "p", "y">>>>,
   dependencies |-> <<<<"r", "e", "q", "u", "e", "s", "t", "s">>>>, has_readme |-> TRUE, has_tests |-> FALSE]

\* How a sandbox behaves for one repository: its creation, the analysis
\* script, the installation and the run of the main file.
Sandbox(create, analysis, install, run) ==
  [create |-> create, analysis |-> analysis, install |-> install, run |-> run]

SandboxAnalysed == Sandbox(Ran(<<>>), Ran([format |-> "json"]), Ran(<<>>), Ran(<<>>))

SandboxUnavailable ==
  Sandbox(Raises(<<"s", "a", "n", "d", "b", "o", "x", " ", "u", "n", "a", "v", "a", "i", "l", "a", "b", "l", "e">>), Ran([format |-> "json"]), Ran(<<>>), Ran(<<>>))

\* a sandbox in which a Python project is installed and run
SandboxPython ==
  Sandbox(Ran(<<>>), Ran([format |-> "python", value |-> PythonProject]),
          Ran(<<"P", "i", "p", " ", "i", "n", "s", "t", "a", "l", "l", " ", "e", "x", "i", "t", " ", "c", "o", "d", "e", ":", " ", "0">>), Ran(<<"R", "u", "n", "n", "i", "n", "g", ":", " ", "p", "y", "t", "h", "o", "n", " ", "m", "a", "i", "n", ".", "p", "y", " ", "E", "x", "i", "t", " ", "c", "o", "d", "e", ":", " ", "0">>))

SandboxBehaviours ==
  { SandboxAnalysed,
    SandboxUnavailable,
    SandboxPython,
    Sandbox(Ran(<<>>), Ran([format |-> "python", value |-> PythonProject]),
            Raises(<<"p", "i", "p", " ", "t", "i", "m", "e", "d", " ", "o", "u", "t">>), Raises(<<"e", "x", "e", "c", "u", "t", "i", "o", "n", " ", "t", "i", "m", "e", "d", " ", "o", "u", "t">>)),
    Sandbox(Ran(<<>>), Raises(<<"c", "l", "o", "n", "e", " ", "t", "i", "m", "e", "d", " ", "o", "u", "t">>), Ran(<<>>), Ran(<<>>)),
    Sandbox(Ran(<<>>), CancelledCall, Ran(<<>>), Ran(<<>>)),
    Sandbox(Ran(<<>>), Ran([format |-> "python", value |-> PythonProject]),
            Ran(<<"P", "i", "p", " ", "i", "n", "s", "t", "a", "l", "l", " ", "e", "x", "i", "t", " ", "c", "o", "d", "e", ":", " ", "0">>), CancelledCall) }

\* What the language model replies when asked for the functionality.
FunctionalityReply(category) ==
  [kind |-> "json",
   value |-> [primary_function |-> <<"C", "o", "m", "m", "a", "n", "d", " ", "l", "i", "n", "e", " ", "h", "e", "l", "p", "e", "r">>, category |-> category,
              use_cases |-> <<<<"A", "u", "t", "o", "m", "a", "t", "i", "o", "n">>>>, notable_features |-> <<>>,
              complexity_level |-> <<"b", "e", "g", "i", "n", "n", "e", "r">>]]

FunctionalityReplies ==
  { [kind |-> "unavailable"], [kind |-> "raises"], [kind |-> "text"],
    FunctionalityReply(<<"c", "l", "i", "_", "t", "o", "o", "l">>),
    FunctionalityReply(ListStr(<<<<"c", "l", "i", "_", "t", "o", "o", "l">>, <<"l", "i", "b", "r", "a", "r", "y">>>>)),
    [kind |-> "json", value |-> [py_list |-> <<<<"c", "l", "i", "_", "t", "o", "o", "l">>>>]] }

\* one call of the runner: the discovered list, the configuration, the
\* behaviour of the sandbox of each execution, and the language model
ExecutionRun(discovered, strategy, max_repos, e2b_api_key, sandboxes, llm) ==
  [input_data |-> [github_discovery |-> [discovered_repositories |-> discovered],
                   execution_strategy |-> strategy,
                   max_repositories |-> max_repos],
   e2b_api_key |-> e2b_api_key, sandboxes |-> sandboxes, llm |-> llm]

\* the calls of the runner for the given lists and a configuration, with
\* the sandboxes behaving in the given ways and the model replying in the
\* given ways
RunsWith(lists, strategy, max_repos, e2b_api_key, behaviours, replies) ==
  UNION {{ExecutionRun(lists[n], strategy, max_repos, e2b_api_key, sandboxes, llm) :
            sandboxes \in [1..(n - 1) -> behaviours], llm \in replies} :
         n \in 1..Len(lists)}

\* the calls of the runner: every behaviour of every sandbox without model
\* and with a well-formed reply; every reply with sandboxes that are created
\* or not; the other configurations with sandboxes that are created or not
ExecutionRuns ==
  LET created == {SandboxAnalysed, SandboxUnavailable}
      runs(lists) ==
        RunsWith(lists, "thorough", 3, <<"k", "e", "y">>, SandboxBehaviours,
                 {[kind |-> "unavailable"], FunctionalityReply(<<"c", "l", "i", "_", "t", "o", "o", "l">>)})
        \cup RunsWith(lists, "thorough", 3, <<"k", "e", "y">>, created, FunctionalityReplies)
        \cup RunsWith(lists, "quick", 3, <<"k", "e", "y">>, created, {[kind |-> "unavailable"]})
        \cup RunsWith(lists, "thorough", 1, <<"k", "e", "y">>, created, {[kind |-> "unavailable"]})
        \cup RunsWith(lists, "thorough", 3, NoneStr, created, {[kind |-> "unavailable"]})
  IN  runs(DiscoveredLists)

\* CodeExecutionAgent.process, called on its own
CodeExecutionProcess ==
  /\ operation = "none"
  /\ \E run \in ExecutionRuns :
       /\ operation' = "CodeExecutionAgent.process"
       /\ arguments' = run
       /\ returned' = execute_repositories(run.input_data, run.e2b_api_key,
                                           run.sandboxes, run.llm, 0)
  /\ UNCHANGED <<pipeline_vars, exchanges, tasks, current, service_vars>>

SpecSandbox == Init /\ [][CodeExecutionProcess]_vars

(***************************************************************************)
(* The synthesizer in detail (agents/content_synthesis_agent.py).           *)
(***************************************************************************)
\* the printable characters in the order of their code points, from the
\* space on (the double quote, the backslash and
\* the backtick by their names)
Ascii ==
  <<" ", "!", "quote", "#", "$", "%", "&", "'", "(", ")", "*", "+", ",", "-", ".", "/",
     "0", "1", "2", "3", "4", "5", "6", "7", "8", "9", ":", ";", "<", "=", ">", "?",
     "@", "A", "B", "C", "D", "E", "F", "G", "H", "I", "J", "K", "L", "M", "N", "O",
     "P", "Q", "R", "S", "T", "U", "V", "W", "X", "Y", "Z", "[", "backslash", "]", "^", "_",
     "backtick", "a", "b", "c", "d", "e", "f", "g", "h", "i", "j", "k", "l", "m", "n", "o",
     "p", "q", "r", "s", "t", "u", "v", "w", "x", "y", "z", "{", "|", "}", "~">>

\* ord(c) of a printable character
ord(c) == 31 + (CHOOSE i \in 1..Len(Ascii) : Ascii[i] = c)

\* a < b of two strings: by the code points of the first characters that
\* differ, a proper prefix first
text_lt(a, b) ==
  LET differ == {i \in 1..Min(Len(a), Len(b)) : a[i] # b[i]}
      first  == CHOOSE i \in differ : \A j \in differ : i <= j
  IN  IF differ = {} THEN Len(a) < Len(b)
      ELSE ord(a[first]) < ord(b[first])

\* a sorted list with one more string, put after the strings below it
insert(t, q) ==
  LET below == Cardinality({i \in 1..Len(q) : text_lt(q[i], t)})
  IN  SubSeq(q, 1, below) \o <<t>> \o SubSeq(q, below + 1, Len(q))

\* sorted(list(tags)) of a set of strings
RECURSIVE sorted(_)
sorted(tags) ==
  IF tags = {} THEN <<>>
  ELSE LET t == CHOOSE u \in tags : TRUE
       IN  insert(t, sorted(tags \ {t}))

\* f"priority_{priority}"
priority_tag(priority) ==
  <<"p", "r", "i", "o", "r", "i", "t", "y", "_">> \o (IF priority = "high" THEN <<"h", "i", "g", "h">>
                    ELSE IF priority = "medium" THEN <<"m", "e", "d", "i", "u", "m">>
                    ELSE <<"l", "o", "w">>)

\* the set _generate_tags builds before it sorts it
tag_set(content_analysis, github_discovery, code_execution) ==
  LET content_type  == get(content_analysis, "content_type", <<>>)
      code_keywords_found == get(content_analysis, "code_keywords", <<>>)
      discovered    == get(github_discovery, "discovered_repositories", <<>>)
      languages     == {get(head(discovered, 3)[i], "language", NoneStr) :
                          i \in 1..Len(head(discovered, 3))} \ {NoneStr, <<>>}
      analysis      == get(code_execution, "analysis", EmptyDict)
      project_types == get(analysis, "project_types_found", <<>>)
      categories    == get(analysis, "categories_found", <<>>)
      priority      == get(content_analysis, "processing_priority", "low")
  IN  {<<"t", "w", "e", "e", "t", "s", "m", "a", "s", "h">>, <<"b", "o", "o", "k", "m", "a", "r", "k">>}
        \cup (IF IsNoneStr(content_type) \/ content_type = <<>> THEN {} ELSE {content_type})
        \cup Range(head(code_keywords_found, 5))
        \cup (IF discovered # <<>>
                THEN {<<"g", "i", "t", "h", "u", "b">>} \cup {lower(language) : language \in languages}
                ELSE {})
        \cup Range(project_types)
        \cup Range(categories)
        \cup (IF get(code_execution, "has_runnable_code", FALSE) THEN {<<"e", "x", "e", "c", "u", "t", "a", "b", "l", "e">>} ELSE {})
        \cup (IF f_gt(get(analysis, "success_rate", F0_0), F0_8) THEN {<<"h", "i", "g", "h", "_", "q", "u", "a", "l", "i", "t", "y">>} ELSE {})
        \cup {priority_tag(priority)}

\* _generate_tags without the limit of 15
generate_tags_unlimited(content_analysis, github_discovery, code_execution) ==
  sorted(tag_set(content_analysis, github_discovery, code_execution))

\* ContentSynthesisAgent._generate_tags
generate_tags(content_analysis, github_discovery, code_execution) ==
  head(sorted(tag_set(content_analysis, github_discovery, code_execution)), 15)

\* ContentSynthesisAgent._extract_execution_insights
extract_execution_insights(code_execution) ==
  LET analysis           == get(code_execution, "analysis", EmptyDict)
      execution_results  == get(code_execution, "execution_results", <<>>)
      successful_results == successful(execution_results)
      n                  == Len(successful_results)
      repo_metadata(i)   == get(successful_results[i], "repository_metadata", EmptyDict)
      functionality(i)   == get(successful_results[i], "functionality", EmptyDict)
      notable(i) ==
        \/ get(repo_metadata(i), "stars", 0) > 50
        \/ get(functionality(i), "complexity_level", NoneStr) = <<"a", "d", "v", "a", "n", "c", "e", "d">>
      project(i) ==
        [name |-> get(repo_metadata(i), "name", NoneStr),
         description |-> get(functionality(i), "primary_function", <<>>),
         category |-> get(functionality(i), "category", <<>>),
         stars |-> get(repo_metadata(i), "stars", 0)]
      RECURSIVE learnings_from(_)
      learnings_from(i) ==
        IF i > n THEN <<>>
        ELSE get(successful_results[i], "learnings", <<>>) \o learnings_from(i + 1)
      RECURSIVE notable_from(_)
      notable_from(i) ==
        IF i > n THEN <<>>
        ELSE (IF notable(i) THEN <<project(i)>> ELSE <<>>) \o notable_from(i + 1)
  IN  [total_executed |-> Len(execution_results),
       successful_count |-> n,
       success_rate |-> get(analysis, "success_rate", 0),
       technologies_discovered |-> get(analysis, "technologies_used", <<>>),
       project_types |-> get(analysis, "project_types_found", <<>>),
       categories |-> get(analysis, "categories_found", <<>>),
       key_learnings |-> learnings_from(1),
       notable_projects |-> notable_from(1)]

\* tweet_info['content_type'].replace raises AttributeError when the
\* content type is None
replace_raises(tweet_info) == IsNoneStr(tweet_info.content_type)

\* ContentSynthesisAgent._generate_basic_content, when it does not raise
generate_basic_content(tweet_info, github_info, execution_insights) ==
  LET author       == tweet_info.author_name
      content_type == spaced(tweet_info.content_type)
      repos_found  == github_info.repositories_found
      top          == github_info.top_repositories
      technologies == join(<<",", " ">>, head(execution_insights.technologies_discovered, 3))
  IN  join(<<" ">>,
           <<<<"@">> \o tweet_info.author_username \o <<" ", "(">> \o author \o <<")", " ", "s", "h", "a", "r", "e", "d", " ", "a", " ">>
               \o content_type \o <<" ", "t", "w", "e", "e", "t", " ", "a", "b", "o", "u", "t", ":", " ">> \o head(tweet_info.text, 100) \o <<".", ".", ".">>>>
           \o (IF repos_found > 0
                 THEN <<<<"A", "n", "a", "l", "y", "s", "i", "s", " ", "d", "i", "s", "c", "o", "v", "e", "r", "e", "d", " ">> \o str_int(repos_found)
                          \o <<" ", "r", "e", "l", "a", "t", "e", "d", " ", "G", "i", "t", "H", "u", "b", " ", "r", "e", "p", "o", "s", "i", "t", "o", "r", "i", "e", "s", ".">>>>
                        \o (IF top # <<>>
                              THEN <<<<"T", "h", "e", " ", "p", "r", "i", "m", "a", "r", "y", " ", "r", "e", "p", "o", "s", "i", "t", "o", "r", "y", " ", "'">> \o top[1].name \o <<"'", " ">>
                                       \o format(get(top[1], "description", <<>>)) \o <<".">>>>
                              ELSE <<>>)
                 ELSE <<>>)
           \o (IF execution_insights.successful_count > 0
                 THEN <<<<"C", "o", "d", "e", " ", "e", "x", "e", "c", "u", "t", "i", "o", "n", " ", "r", "e", "v", "e", "a", "l", "e", "d", " ", "p", "r", "o", "j", "e", "c", "t", "s", " ", "u", "s", "i", "n", "g", " ">> \o technologies \o <<".">>>>
                 ELSE <<>>))

\* What the language model does when asked for the synthesis: it is not
\* configured, the query raises, or it replies with a text.
\* ContentSynthesisAgent._generate_synthesized_content: the reply of the
\* model, or the basic content, which raises for a content type of None
generate_synthesized_content(tweet_info, github_info, execution_insights, style, llm) ==
  IF llm.kind = "text" THEN [raised |-> FALSE, value |-> llm.value]
  ELSE IF replace_raises(tweet_info) THEN [raised |-> TRUE]
  ELSE [raised |-> FALSE,
        value |-> generate_basic_content(tweet_info, github_info, execution_insights)]

\* the item _generate_actionable_items adds for a repository, if any; the
\* pictograph that opens an item is written by its name, as one character
repository_item(repo) ==
  IF get(repo, "executed", FALSE)
     /\ get(get(repo, "insights", EmptyDict), "execution_successful", FALSE)
    THEN <<<<"[explore]">> \o <<" ", "E", "x", "p", "l", "o", "r", "e", " ">> \o repo.name \o <<" ", "-", " ">>
             \o format(get(get(repo, "functionality", EmptyDict), "primary_function",
                           <<"f", "u", "n", "c", "t", "i", "o", "n", "a", "l", " ", "c", "o", "d", "e">>))>>
  ELSE IF f_gt(repo.confidence_score, F0_8)
    THEN <<<<"[investigate]">> \o <<" ", "I", "n", "v", "e", "s", "t", "i", "g", "a", "t", "e", " ">> \o repo.name
             \o <<" ", "-", " ", "h", "i", "g", "h", "-", "c", "o", "n", "f", "i", "d", "e", "n", "c", "e", " ", "d", "i", "s", "c", "o", "v", "e", "r", "y">>>>
  ELSE <<>>

\* the follow-up item is added for a bookmark with an author and at least
\* one repository
follows_up(tweet_info, github_info) ==
  tweet_info.author_username # <<>> /\ github_info.repositories_found > 0

\* the items of _generate_actionable_items before the limit of 6
all_actionable_items(tweet_info, github_info, execution_insights) ==
  LET top          == github_info.top_repositories
      technologies == head(execution_insights.technologies_discovered, 2)
      RECURSIVE repository_items(_)
      repository_items(i) ==
        IF i > Len(top) THEN <<>> ELSE repository_item(top[i]) \o repository_items(i + 1)
      RECURSIVE technology_items(_)
      technology_items(i) ==
        IF i > Len(technologies) THEN <<>>
        ELSE (IF technologies[i] \notin {<<"u", "n", "k", "n", "o", "w", "n">>, <<>>}
                THEN <<<<"[learn]">> \o <<" ", "L", "e", "a", "r", "n", " ", "m", "o", "r", "e", " ", "a", "b", "o", "u", "t", " ">> \o technologies[i]>>
                ELSE <<>>)
             \o technology_items(i + 1)
  IN  (repository_items(1)
             \o technology_items(1)
             \o (IF execution_insights.successful_count > 1
                   THEN <<<<"[compare]">> \o <<" ", "C", "o", "m", "p", "a", "r", "e", " ", "i", "m", "p", "l", "e", "m", "e", "n", "t", "a", "t", "i", "o", "n", " ", "p", "a", "t", "t", "e", "r", "n", "s", " ", "a", "c", "r", "o", "s", "s", " ", "d", "i", "s", "c", "o", "v", "e", "r", "e", "d", " ", "r", "e", "p", "o", "s", "i", "t", "o", "r", "i", "e", "s">>>>
                   ELSE <<>>)
             \o (IF follows_up(tweet_info, github_info)
                   THEN <<<<"[follow]">> \o <<" ", "F", "o", "l", "l", "o", "w", " ">> \o <<"@">> \o tweet_info.author_username
                            \o <<" ", "f", "o", "r", " ", "m", "o", "r", "e", " ">> \o spaced(tweet_info.content_type) \o <<" ", "c", "o", "n", "t", "e", "n", "t">>>>
                   ELSE <<>>)
             \o (IF execution_insights.key_learnings # <<>>
                   THEN <<<<"[document]">> \o <<" ", "D", "o", "c", "u", "m", "e", "n", "t", " ", "l", "e", "a", "r", "n", "i", "n", "g", "s", " ", "f", "o", "r", " ", "f", "u", "t", "u", "r", "e", " ", "r", "e", "f", "e", "r", "e", "n", "c", "e">>>>
                   ELSE <<>>))

\* _generate_actionable_items without the limit of 6
generate_actionable_items_unlimited(tweet_info, github_info, execution_insights) ==
  all_actionable_items(tweet_info, github_info, execution_insights)

\* ContentSynthesisAgent._generate_actionable_items, when it does not raise
generate_actionable_items(tweet_info, github_info, execution_insights) ==
  head(all_actionable_items(tweet_info, github_info, execution_insights), 6)

\* ContentSynthesisAgent.process with its language model: the synthesis, or
\* the failure made of the AttributeError raised for a content type of None
\* (by the basic content, by the follow-up item, and at last by the title)
synthesize(input_data, llm, now) ==
  LET original_bookmark  == get(input_data, "original_bookmark", EmptyDict)
      content_analysis   == get(input_data, "content_analysis", EmptyDict)
      github_discovery   == get(input_data, "github_discovery", EmptyDict)
      code_execution     == get(input_data, "code_execution", EmptyDict)
      synthesis_style    == get(input_data, "synthesis_style", "detailed")
      tweet_info         == extract_tweet_info(original_bookmark, content_analysis)
      github_info        == extract_github_info(github_discovery, code_execution)
      execution_insights == extract_execution_insights(code_execution)
      synthesized_content ==
        generate_synthesized_content(tweet_info, github_info, execution_insights,
                                     synthesis_style, llm)
  IN  IF replace_raises(tweet_info)
        THEN create_result("ContentSynthesisAgent", FALSE, None,
                           "'NoneType' object has no attribute 'replace'", now)
      ELSE create_result("ContentSynthesisAgent", TRUE,
                         [title |-> generate_title(tweet_info, github_info),
                          synthesized_content |-> synthesized_content.value,
                          actionable_items |->
                            generate_actionable_items(tweet_info, github_info,
                                                      execution_insights),
                          tags |-> generate_tags(content_analysis, github_discovery,
                                                 code_execution),
                          metadata |-> generate_metadata(input_data, now),
                          tweet_info |-> tweet_info,
                          github_summary |-> github_info,
                          execution_summary |-> execution_insights,
                          synthesis_style |-> synthesis_style,
                          content_ready_for_notion |-> TRUE],
                         "", now)

\* the lists list(set(...)) may give for a set: its elements in any order
orders(S) == {q \in [1..Cardinality(S) -> S] : Range(q) = S}

\* the execution data as the synthesizer gets them: the lists of the
\* analysis in one of their orders
in_order(data) ==
  IF ~HasKey(data, "analysis") \/ ~HasKey(data.analysis, "technologies_used") THEN {data}
  ELSE {Merge(data,
              [analysis |-> Merge(data.analysis,
                                  [project_types_found |-> types,
                                   categories_found |-> categories,
                                   technologies_used |-> technologies])]) :
          types \in orders(data.analysis.project_types_found),
          categories \in orders(data.analysis.categories_found),
          technologies \in orders(data.analysis.technologies_used)}

\* 'Built a django api with docker and redis on aws, see the repo'
TextStack == <<"B", "u", "i", "l", "t", " ", "a", " ", "d", "j", "a", "n", "g", "o", " ", "a", "p", "i", " ", "w", "i", "t", "h", " ", "d", "o", "c", "k", "e", "r", " ", "a", "n", "d", " ", "r", "e", "d", "i", "s", " ", "o", "n", " ", "a", "w", "s", ",", " ", "s", "e", "e", " ", "t", "h", "e", " ", "r", "e", "p", "o">>

\* the texts of the bookmarks the synthesizer is run for
SynthesisTexts == {TextSunset, TextKeywords, TextStack}

\* the replies of the classifier's model: none, an object with the fields
\* asked for, an object without them
ClassifierReplies ==
  {reply \in LLMReplies :
     reply.kind = "unavailable" \/ (reply.kind = "json" /\ ~HasKey(reply.value, "py_list"))}

\* what the synthesizer's model does
SynthesisReplies ==
  { [kind |-> "unavailable"], [kind |-> "error"],
    [kind |-> "text", value |-> <<"A", " ", "s", "y", "n", "t", "h", "e", "s", "i", "s", ".">>] }

\* how the sandboxes of a run behave: all alike, or the first one running
\* a Python project and the others not telling what they hold
SandboxPlans(n) ==
  {[i \in 1..n |-> behaviour] :
     behaviour \in {SandboxPython, SandboxUnavailable, SandboxAnalysed}}
    \cup {[i \in 1..n |-> IF i = 1 THEN SandboxPython ELSE SandboxAnalysed]}

\* the execution data the synthesizer may get for a discovered list: none,
\* or those of a run of the sandbox stage
ExecutionsOf(discovered) ==
  LET input_data == [github_discovery |-> [discovered_repositories |-> discovered],
                     execution_strategy |-> "thorough", max_repositories |-> 3]
      ran(sandboxes) ==
        execute_repositories(input_data, <<"k", "e", "y">>, sandboxes, [kind |-> "unavailable"], 0).value
  IN  {no_execution}
        \cup (IF discovered = <<>> THEN {}
              ELSE UNION {in_order(execution_data_of(ran(sandboxes))) :
                            sandboxes \in SandboxPlans(Len(discovered))})

\* the bookmarks with their classification
ClassifiedBookmarks ==
  {[original_bookmark |-> Bookmark("post_1", text),
    content_analysis |->
      content_analysis_process([bookmark |-> Bookmark("post_1", text)], reply, 0).data] :
     text \in SynthesisTexts, reply \in ClassifierReplies}

\* the discovered lists, ranked, with the execution data of each
ExecutedLists ==
  LET executed(discovered) ==
        {[discovered_repositories |-> discovered, code_execution |-> execution] :
           execution \in ExecutionsOf(discovered)}
      ranked(lists) ==
        UNION {executed(rank_repositories(lists[n], EmptyDict)) : n \in 1..Len(lists)}
  IN  ranked(DiscoveredLists)

\* the input of one call of the synthesizer, made by the stages before it
SynthesisInput(classified, executed) ==
  [original_bookmark |-> classified.original_bookmark,
   content_analysis |-> classified.content_analysis,
   github_discovery |->
     discovery_data(executed.discovered_repositories, classified.content_analysis,
                    "aggressive"),
   code_execution |-> executed.code_execution,
   synthesis_style |-> "detailed"]

\* ContentSynthesisAgent.process, called on its own
ContentSynthesisProcess ==
  /\ operation = "none"
  /\ \E classified \in ClassifiedBookmarks, executed \in ExecutedLists,
        llm \in SynthesisReplies :
       LET input_data == SynthesisInput(classified, executed)
       IN  /\ operation' = "ContentSynthesisAgent.process"
           /\ arguments' = [input_data |-> input_data, llm |-> llm]
           /\ returned' = synthesize(input_data, llm, 0)
  /\ UNCHANGED <<pipeline_vars, exchanges, tasks, current, service_vars>>

SpecSynthesis == Init /\ [][ContentSynthesisProcess]_vars

(***************************************************************************)
(* The router's process_bookmark with its job entries                      *)
(* (processors/router.py).  The calls are coroutines of one event loop: a  *)
(* call runs alone from one await of a collaborator to the next.  Redis    *)
(* answers every command; the expiry of a job entry after 24 hours is left *)
(* out.                                                                    *)
(***************************************************************************)
\* \w, for the characters of the texts here
WordChars ==
  {LowerChars[i] : i \in 1..26} \cup {UpperChars[i] : i \in 1..26} \cup DigitChars \cup {"_"}

\* [\da-fA-F]
HexChars == DigitChars \cup {"a", "b", "c", "d", "e", "f", "A", "B", "C", "D", "E", "F"}

\* [/\w\-._~:/?#[\]@!$&'()*+,;=.]
UrlTailChars ==
  WordChars \cup {"/", "-", ".", "~", ":", "?", "#", "[", "]", "@", "!", "$", "&", "'",
                  "(", ")", "*", "+", ",", ";", "="}

\* what (?:[-\w.]|(?:%[\da-fA-F]{2}))* consumes at s[i:]
RECURSIVE url_host_len(_, _)
url_host_len(s, i) ==
  IF i <= Len(s) /\ s[i] \in WordChars \cup {"-", "."} THEN 1 + url_host_len(s, i + 1)
  ELSE IF i + 2 <= Len(s) /\ s[i] = "%" /\ s[i + 1] \in HexChars /\ s[i + 2] \in HexChars
    THEN 3 + url_host_len(s, i + 3)
  ELSE 0

\* one attempt of url_pattern at position i: the position after the match,
\* or 0 when there is none
url_pattern_at(s, i) ==
  LET after_host(host, n) == IF n = 0 THEN 0 ELSE host + n + run_len(s, host + n, UrlTailChars)
      after_scheme(host)  == after_host(host, url_host_len(s, host))
  IN  IF starts_at(s, i, <<"h", "t", "t", "p", "s", ":", "/", "/">>) THEN after_scheme(i + 8)
      ELSE IF starts_at(s, i, <<"h", "t", "t", "p", ":", "/", "/">>) THEN after_scheme(i + 7)
      ELSE 0

\* ContentRouter._extract_urls: re.findall(url_pattern, text)
RECURSIVE extract_urls_from(_, _)
extract_urls_from(s, i) ==
  LET found(end) == IF end = 0 THEN extract_urls_from(s, i + 1)
                    ELSE <<SubSeq(s, i, end - 1)>> \o extract_urls_from(s, end)
  IN  IF i > Len(s) THEN <<>> ELSE found(url_pattern_at(s, i))

extract_urls(text) == extract_urls_from(text, 1)

\* the router is built with a Redis URL: redis.from_url makes the client
\* without connecting, so the constructor leaves job tracking enabled
job_tracking_enabled == TRUE

\* ContentRouter._create_job: the store with the new entry; the job id is
\* a new UUID, here the number of the entry
create_job(store, bookmark_id) ==
  Append(store, [job_id |-> Len(store) + 1, bookmark_id |-> bookmark_id,
                 status |-> "pending"])

\* ContentRouter._update_job
update_job(store, job_id, status, data) ==
  IF ~job_tracking_enabled THEN store
  ELSE [store EXCEPT ![job_id] =
          IF Truthy(data) THEN Merge(@, [status |-> status, result |-> data])
          ELSE Merge(@, [status |-> status])]

\* ContentRouter._get_job_status: the first entry of the bookmark that
\* scan_iter yields, None when it yields none; SCAN gives the keys in an
\* order of no meaning, so it is any entry of the bookmark
get_job_status(store, bookmark_id) ==
  IF ~job_tracking_enabled \/ ~\E i \in 1..Len(store) : store[i].bookmark_id = bookmark_id
    THEN {None}
    ELSE {store[i] : i \in {j \in 1..Len(store) : store[j].bookmark_id = bookmark_id}}

\* the already-processed test of process_bookmark (lines 139-143)
already_processed(force, existing_job) ==
  /\ ~force
  /\ job_tracking_enabled
  /\ ~IsNone(existing_job)
  /\ get(existing_job, "status", NoneStr) = "completed"

\* process_bookmark from the bookmark data to the processor (lines 157-183):
\* the URLs of the bookmark, the analysis of the first one, the content type
route(bookmark) ==
  LET analysed(primary_url, url_analysis) ==
        IF ~url_analysis.success
          THEN [kind |-> "analysis_failed", url_analysis |-> url_analysis]
          ELSE [kind |-> "process", content_type |-> url_analysis.content_type,
                primary_url |-> primary_url]
      extracted(urls) ==
        IF urls = <<>> THEN [kind |-> "no_urls"]
        ELSE analysed(urls[1], analyze_url(urls[1]))
      details == get(bookmark, "tweet_details", EmptyDict)
  IN  IF IsNone(bookmark)
        THEN [kind |-> "raises", error |-> "'NoneType' object has no attribute 'get'"]
      ELSE IF get(bookmark, "extracted_urls", <<>>) # <<>>
        THEN extracted(bookmark.extracted_urls)
      ELSE IF IsNone(details)
        THEN [kind |-> "raises", error |-> "'NoneType' object has no attribute 'get'"]
      ELSE extracted(extract_urls(get(details, "text", <<>>)))

\* the processor of a content type (lines 179-183), named by its stage
processor_of(content_type) ==
  IF content_type = "github" THEN "github_codespace"
  ELSE IF content_type = "youtube" THEN "youtube_transcription"
  ELSE "notion_save"

\* a call of process_bookmark that has returned
returned_call(call, result) == Merge(call, [pc |-> "returned", result |-> result])

\* the handler returning the error without touching the job
failed_in_handler_job_untouched(store, call, error) ==
  [jobs |-> store,
   call |-> returned_call(call, [success |-> FALSE, error |-> error])]

\* the handler of process_bookmark (lines 201-209) once the job exists
failed_in_handler(store, call, error) ==
  [jobs |-> update_job(store, call.job_id, "failed", [error |-> error]),
   call |-> returned_call(call, [success |-> FALSE, error |-> error])]

\* process_bookmark from the bookmark data on, up to the await of the
\* processor's collaborator or to the return: the store and the call
proceed(store, call, bookmark) ==
  LET routed(r) ==
        IF r.kind = "raises" THEN failed_in_handler(store, call, r.error)
        ELSE IF r.kind = "no_urls"
          THEN [jobs |-> update_job(store, call.job_id, "completed",
                                    [message |-> "No URLs found"]),
                call |-> returned_call(call, [success |-> TRUE, job_id |-> call.job_id,
                                              message |-> "No URLs found in bookmark"])]
        ELSE IF r.kind = "analysis_failed"
          THEN [jobs |-> update_job(store, call.job_id, "failed",
                                    [error |-> r.url_analysis.error]),
                call |-> returned_call(call, r.url_analysis)]
        ELSE [jobs |-> update_job(store, call.job_id, "processing",
                                  [stage |-> processor_of(r.content_type)]),
              call |-> Merge(call, [pc |-> "processing", content_type |-> r.content_type,
                                    processor |-> processor_of(r.content_type)])]
  IN  routed(route(bookmark))

\* 'https://github.com/foo/bar' as the text of a bookmark, a video, and a
\* URL that urlparse refuses
UrlVideo == <<"h", "t", "t", "p", "s", ":", "/", "/", "y", "o", "u", "t", "u", "b", "e", ".", "c", "o", "m", "/", "w", "a", "t", "c", "h", "?", "v", "=", "d", "Q", "w", "4", "w", "9", "W", "g", "X", "c", "Q">>

UrlRefused == <<"h", "t", "t", "p", ":", "/", "/", "[", ":", ":", "1">>

\* the bookmark data process_bookmark is called with: none (the bookmark is
\* fetched), a text without URL, a text with a URL, listed URLs
RouterBookmarks ==
  { None,
    Bookmark("post_1", TextSunset),
    Merge(Bookmark("post_1", TextUrl), [extracted_urls |-> <<>>]),
    Merge(Bookmark("post_1", TextSunset), [extracted_urls |-> <<UrlVideo>>]),
    Merge(Bookmark("post_1", TextSunset), [extracted_urls |-> <<UrlRefused>>]) }

\* what get_bookmark_details gives: a failure, or a bookmark
FetchedBookmarks ==
  { [success |-> FALSE, error |-> "Bookmark not found"],
    [success |-> TRUE, bookmark |-> Bookmark("post_1", TextSunset)],
    [success |-> TRUE,
     bookmark |-> Merge(Bookmark("post_1", TextUrl), [extracted_urls |-> <<TextUrl>>])] }

BookmarkIds == {"post_1", "post_2"}

\* how many calls of the router's process_bookmark are made
MaxRouterCalls == 3

\* ContentRouter.process_bookmark from its entry to its first await of a
\* collaborator, or to its return
RouterProcessBookmark ==
  /\ Len(router_calls) < MaxRouterCalls
  /\ \E bookmark_id \in BookmarkIds, bookmark \in RouterBookmarks, force \in BOOLEAN :
     \E existing_job \in get_job_status(jobs, bookmark_id) :
       LET call == [bookmark_id |-> bookmark_id, force |-> force, pc |-> "entered",
                    job_id |-> 0, processor |-> "none"]
           created(store) ==
             LET with_job == Merge(call, [job_id |-> Len(store)])
             IN  IF ~Truthy(bookmark)
                   THEN [jobs |-> store, call |-> Merge(with_job, [pc |-> "fetching"])]
                   ELSE proceed(store, with_job, bookmark)
           after(step) ==
             /\ jobs' = step.jobs
             /\ router_calls' = Append(router_calls, step.call)
       IN  IF already_processed(force, existing_job)
             THEN after([jobs |-> jobs, call |-> returned_call(call, existing_job)])
             ELSE after(created(create_job(jobs, bookmark_id)))
  /\ UNCHANGED <<pipeline_vars, operation, arguments, returned, exchanges, tasks, current,
                 cache, fetch_calls>>

\* get_bookmark_details returns to a call that awaits it
RouterFetchReturns ==
  /\ \E c \in 1..Len(router_calls), result \in FetchedBookmarks :
       LET after(step) ==
             /\ jobs' = step.jobs
             /\ router_calls' = [router_calls EXCEPT ![c] = step.call]
       IN  /\ router_calls[c].pc = "fetching"
           /\ IF ~result.success
                THEN after(failed_in_handler(jobs, router_calls[c],
                                             "Failed to fetch bookmark: Bookmark not found"))
                ELSE after(proceed(jobs, router_calls[c], result.bookmark))
  /\ UNCHANGED <<pipeline_vars, operation, arguments, returned, exchanges, tasks, current,
                 cache, fetch_calls>>

\* the collaborator of a processor returns, or raises (the processors of
\* GitHub and of videos let the exception through, the Notion one catches
\* it), and process_bookmark goes on to its return
RouterProcessorReturns ==
  /\ \E c \in 1..Len(router_calls), raises \in BOOLEAN :
       LET call == router_calls[c]
           result == [success |-> TRUE, stage |-> call.processor]
           after(step) ==
             /\ jobs' = step.jobs
             /\ router_calls' = [router_calls EXCEPT ![c] = step.call]
       IN  /\ call.pc = "processing"
           /\ raises => call.processor # "notion_save"
           /\ IF raises
                THEN after(failed_in_handler(jobs, call, "processor failed"))
                ELSE after([jobs |-> update_job(jobs, call.job_id, "completed", result),
                            call |-> returned_call(call,
                                       [success |-> TRUE, job_id |-> call.job_id,
                                        bookmark_id |-> call.bookmark_id,
                                        content_type |-> call.content_type,
                                        result |-> result])])
  /\ UNCHANGED <<pipeline_vars, operation, arguments, returned, exchanges, tasks, current,
                 cache, fetch_calls>>

RouterNext == RouterProcessBookmark \/ RouterFetchReturns \/ RouterProcessorReturns

SpecRouter == Init /\ [][RouterNext]_vars

(***************************************************************************)
(* TweetSmashTools.fetch_bookmarks (tools/tweetsmash.py).  cache is the    *)
(* Redis store of the tool, a set of entries [key, value]; fetch_calls are *)
(* the calls made, each a coroutine that is suspended only at its await of *)
(* the API client.                                                         *)
(***************************************************************************)
\* redis.from_url builds the client without connecting
cache_enabled == TRUE

\* f"bookmarks:{limit}:{cursor or 'none'}"
cache_key(limit, cursor) ==
  <<limit, IF cursor = NoneStr \/ cursor = <<>> THEN <<"n", "o", "n", "e">> ELSE cursor>>

\* json.dumps and json.loads, on a document parsed from a JSON reply
json_dumps(value) == [json |-> value]

json_loads(bytes) == bytes.json

\* redis_client.get
cache_get(store, key) ==
  IF \E entry \in store : entry.key = key
    THEN (CHOOSE entry \in store : entry.key = key).value
    ELSE None

\* redis_client.setex
cache_setex(store, key, value) ==
  {entry \in store : entry.key # key} \cup {[key |-> key, value |-> value]}

\* TweetSmashTools._extract_urls: the URLs of the text, repeats removed
tools_extract_urls(text) == dedup(extract_urls(text))

\* bookmark.get("tweet_details", {}).get("text", "") raises on a null
\* tweet_details
text_raises(bookmark) == IsNone(get(bookmark, "tweet_details", EmptyDict))

\* the loop over the bookmarks of the reply, which adds extracted_urls to
\* each bookmark in place
with_extracted_urls(bookmarks) ==
  [i \in 1..Len(bookmarks) |->
     Merge(bookmarks[i],
           [extracted_urls |->
              tools_extract_urls(get(get(bookmarks[i], "tweet_details", EmptyDict),
                                     "text", <<>>))])]

\* the reply with its bookmarks as the loop leaves them
processed_reply(reply) ==
  IF HasKey(reply, "bookmarks")
    THEN Merge(reply, [bookmarks |-> with_extracted_urls(reply.bookmarks)])
    ELSE reply

\* the dictionary fetch_bookmarks builds after a fetch (lines 71-77)
fetched_result(reply) ==
  LET built(bookmarks) ==
        [success |-> TRUE, bookmarks |-> bookmarks, count |-> Len(bookmarks),
         next_cursor |-> get(reply, "next_cursor", NoneStr),
         has_more |-> get(reply, "has_more", FALSE)]
  IN  built(get(processed_reply(reply), "bookmarks", <<>>))

\* fetch_bookmarks once the API client has answered (lines 54-84): outcome
\* is [raises |-> message] or [reply |-> document]
after_fetch(store, call, outcome) ==
  LET returns(result, stored, kept) ==
        [cache |-> kept,
         call |-> [call EXCEPT !.pc = "returned", !.result = result, !.stored = stored]]
  IN  IF HasKey(outcome, "raises")
        THEN returns([success |-> FALSE, error |-> outcome.raises], 0, store)
      ELSE IF \E i \in 1..Len(get(outcome.reply, "bookmarks", <<>>)) :
                text_raises(outcome.reply.bookmarks[i])
        THEN returns([success |-> FALSE,
                      error |-> "'NoneType' object has no attribute 'get'"], 0, store)
      ELSE returns(fetched_result(outcome.reply),
                   1 + Cardinality({c \in 1..Len(fetch_calls) : fetch_calls[c].stored > 0}),
                   IF cache_enabled
                     THEN cache_setex(store, call.key, json_dumps(processed_reply(outcome.reply)))
                     ELSE store)

CursorNext == <<"c", "2">>

\* what TweetSmashAPI.fetch_bookmarks does: it raises, or returns the
\* document of the reply
ApiOutcomes ==
  { [raises |-> "TweetSmash API rate limit exceeded"],
    [reply |-> [bookmarks |-> <<Bookmark("post_1", TextUrl)>>,
                next_cursor |-> CursorNext, has_more |-> TRUE]],
    [reply |-> [bookmarks |-> <<Bookmark("post_1", TextSunset), Bookmark("post_2", TextUrl)>>,
                next_cursor |-> NoneStr, has_more |-> FALSE]],
    [reply |-> [bookmarks |-> <<>>]],
    [reply |-> [success |-> TRUE, bookmarks |-> <<>>, count |-> 0,
                next_cursor |-> NoneStr, has_more |-> FALSE]],
    [reply |-> [bookmarks |-> <<[post_id |-> "post_1", tweet_details |-> None]>>,
                has_more |-> FALSE]] }

Limits == {10, 20}

Cursors == {NoneStr, CursorNext}

\* how many calls of fetch_bookmarks are made
MaxFetchCalls == 3

\* fetch_bookmarks from its entry to its return from the cache, or to its
\* await of the API client
FetchBookmarks ==
  /\ Len(fetch_calls) < MaxFetchCalls
  /\ \E limit \in Limits, cursor \in Cursors :
       LET key == cache_key(limit, cursor)
           cached == IF cache_enabled THEN cache_get(cache, key) ELSE None
           call == [limit |-> limit, cursor |-> cursor, key |-> key, stored |-> 0]
       IN  fetch_calls' =
             Append(fetch_calls,
                    IF ~IsNone(cached)
                      THEN Merge(call, [pc |-> "returned", hit |-> TRUE,
                                        result |-> json_loads(cached)])
                      ELSE Merge(call, [pc |-> "fetching", hit |-> FALSE,
                                        result |-> None]))
  /\ UNCHANGED <<pipeline_vars, operation, arguments, returned, exchanges, tasks, current,
                 jobs, router_calls, cache>>

\* the API client answers a call that awaits it
FetchApiReturns ==
  /\ \E c \in 1..Len(fetch_calls), outcome \in ApiOutcomes :
       /\ fetch_calls[c].pc = "fetching"
       /\ LET done(after) ==
                /\ cache' = after.cache
                /\ fetch_calls' = [fetch_calls EXCEPT ![c] = after.call]
          IN  done(after_fetch(cache, fetch_calls[c], outcome))
  /\ UNCHANGED <<pipeline_vars, operation, arguments, returned, exchanges, tasks, current,
                 jobs, router_calls>>

\* an entry of the cache reaches the end of its 300 seconds
CacheExpires ==
  /\ \E entry \in cache : cache' = cache \ {entry}
  /\ UNCHANGED <<pipeline_vars, operation, arguments, returned, exchanges, tasks, current,
                 jobs, router_calls, fetch_calls>>

FetchNext == FetchBookmarks \/ FetchApiReturns \/ CacheExpires

SpecFetch == Init /\ [][FetchNext]_vars

(***************************************************************************)
(* Properties of process_bookmark.                                         *)
(***************************************************************************)
\* the place of an agent in the pipeline
StageRank(agent_name) ==
  CASE agent_name = "ContentAnalysisAgent" -> 1
    [] agent_name = "GitHubDiscoveryAgent" -> 2
    [] agent_name = "CodeExecutionAgent" -> 3
    [] agent_name = "ContentSynthesisAgent" -> 4

\* the i-th await has given its result
Answered(i) == i <= Len(stage_results)

\* the i-th await has given a result with success = true
Succeeded(i) == Answered(i) /\ get(stage_results[i], "success", FALSE)

\* the i-th await has given a result with success = false
Failed(i) == Answered(i) /\ ~get(stage_results[i], "success", FALSE)

\* the stages whose failure ends the run
Mandatory(agent_name) == agent_name # "CodeExecutionAgent"

\* the synthesis stage was the last one invoked, with these inputs
SynthesisInvokedWith(i, repositories_empty, execution_empty) ==
  /\ Len(invoked) = i
  /\ invoked[i] = "ContentSynthesisAgent"
  /\ awaited.agent = "ContentSynthesisAgent"
  /\ repositories_empty =>
       awaited.input.github_discovery.discovered_repositories = <<>>
  /\ execution_empty => awaited.input.code_execution.execution_results = <<>>

\* process_bookmark has returned a report with success = true
ReturnedSuccess == pc = "returned" /\ report.success

\* the report is the one of the given short-circuit branch
ReportOfBranch(processing_type) ==
  /\ ReturnedSuccess
  /\ HasKey(report.metadata, "processing_type")
  /\ report.metadata.processing_type = processing_type

\* C1: the stages of a run are invoked one after another in the order
\* classification, resolution, sandbox execution, synthesis; a stage is
\* started only when the stage invoked before it has given its result;
\* resolution is started only after a successful classification, sandbox
\* execution only after a successful resolution with at least one
\* repository; and at most one stage is in progress at any time.
C1_StagesInOrder ==
  /\ Cardinality(in_progress) <= 1
  /\ \A a \in in_progress : invoked # <<>> /\ a = invoked[Len(invoked)]
  /\ Len(invoked) <= Len(stage_results) + 1
  /\ invoked # <<>> => invoked[1] = "ContentAnalysisAgent"
  /\ \A i, j \in 1..Len(invoked) :
       i < j => StageRank(invoked[i]) < StageRank(invoked[j])
  /\ \A i \in 1..Len(invoked) :
       /\ invoked[i] = "GitHubDiscoveryAgent" =>
            \E j \in 1..(i - 1) :
              invoked[j] = "ContentAnalysisAgent" /\ Succeeded(j)
       /\ invoked[i] = "CodeExecutionAgent" =>
            \E j \in 1..(i - 1) :
              /\ invoked[j] = "GitHubDiscoveryAgent" /\ Succeeded(j)
              /\ Len(stage_results[j].data.discovered_repositories) >= 1

\* a run through all four stages has returned
C1_Witness ==
  /\ pc = "returned"
  /\ invoked = <<"ContentAnalysisAgent", "GitHubDiscoveryAgent",
                 "CodeExecutionAgent", "ContentSynthesisAgent">>
  /\ in_progress = {}

\* classification succeeded with a score below 0.3 and no discovery required
LowRelevance ==
  /\ Succeeded(1)
  /\ f_lt(stage_results[1].data.github_relevance_score, F0_3)
  /\ ~stage_results[1].data.requires_github_discovery

\* the run is on the non_github_content branch: neither resolution nor the
\* sandbox was invoked, synthesis was invoked with no repositories and no
\* execution results, and its success gives the non_github_content report
NonGithubBranch ==
  /\ "GitHubDiscoveryAgent" \notin Range(invoked)
  /\ "CodeExecutionAgent" \notin Range(invoked)
  /\ SynthesisInvokedWith(2, TRUE, TRUE)
  /\ Succeeded(2) => ReportOfBranch("non_github_content")

\* the classified text has no URL, no mention, no keyword and no code term,
\* the word "github" counted among the code terms
NoUrlMentionKeywordCodeTerm ==
  /\ Succeeded(1)
  /\ stage_results[1].data.direct_github_urls = <<>>
  /\ stage_results[1].data.github_mentions = <<>>
  /\ stage_results[1].data.code_keywords = <<>>
  /\ ~any_in(code_terms, lower(stage_results[1].data.tweet_text))
  /\ ~contains(lower(stage_results[1].data.tweet_text), <<"g", "i", "t", "h", "u", "b">>)

\* ... and no announcement term either
NoRelevanceEvidence ==
  /\ NoUrlMentionKeywordCodeTerm
  /\ ~any_in(announcement_terms, lower(stage_results[1].data.tweet_text))

\* C2 as stated: a classification with score < 0.3 and no discovery required
\* takes the non_github_content branch, and every text without URL, mention,
\* keyword and code term is classified that way.
C2_AsStated ==
  /\ LowRelevance => NonGithubBranch
  /\ NoUrlMentionKeywordCodeTerm => LowRelevance /\ NonGithubBranch

\* C2: a classification with score < 0.3 and no discovery required takes the
\* non_github_content branch (no resolution, no sandbox, synthesis with an
\* empty repository list and empty execution results, a successful
\* synthesis giving processing_type = non_github_content); a text without
\* URL, mention, keyword, code term and announcement term is classified that
\* way.
C2_LowRelevanceSkipsGithub ==
  /\ LowRelevance => NonGithubBranch
  /\ NoRelevanceEvidence => LowRelevance /\ NonGithubBranch

\* "Beautiful sunset today!" has come back as non_github_content
C2_Witness ==
  /\ ReportOfBranch("non_github_content")
  /\ stage_results[1].data.tweet_text = TextSunset
  /\ invoked = <<"ContentAnalysisAgent", "ContentSynthesisAgent">>

\* resolution succeeded and found no repository
NoRepositoryFound ==
  /\ Len(invoked) >= 2
  /\ invoked[2] = "GitHubDiscoveryAgent"
  /\ Succeeded(2)
  /\ stage_results[2].data.discovered_repositories = <<>>

\* C3: when resolution succeeds with zero repositories the sandbox stage is
\* never invoked, synthesis is invoked with the discovery data and empty
\* execution results, and a successful synthesis gives success = true with
\* processing_type = github_analysis_only.
C3_NoRepositoriesSkipsSandbox ==
  NoRepositoryFound =>
    /\ "CodeExecutionAgent" \notin Range(invoked)
    /\ SynthesisInvokedWith(3, TRUE, TRUE)
    /\ awaited.input.github_discovery = stage_results[2].data
    /\ Succeeded(3) => ReportOfBranch("github_analysis_only")

\* a run without repositories has come back as github_analysis_only
C3_Witness ==
  /\ NoRepositoryFound
  /\ ReportOfBranch("github_analysis_only")

\* C4: when a mandatory stage (classification, resolution, synthesis) gives
\* success = false, by itself or by its deadline, the run ends there:
\* process_bookmark returns a report with success = false and no further
\* stage is invoked.
C4_MandatoryFailureEndsRun ==
  \A i \in 1..Len(stage_results) :
    Mandatory(invoked[i]) /\ Failed(i) =>
      /\ Len(stage_results) = i
      /\ Len(invoked) = i
      /\ in_progress = {}
      /\ pc = "returned"
      /\ ~report.success

\* the resolution stage ran into its 60 second deadline and the run failed
C4_Witness ==
  /\ pc = "returned"
  /\ Len(stage_results) = 2
  /\ invoked[2] = "GitHubDiscoveryAgent"
  /\ Failed(2)
  /\ stage_results[2].error = "Agent timed out after 60 seconds"
  /\ ~report.success

\* C5: a sandbox stage result with success = false does not fail the run:
\* synthesis is invoked next with empty execution results, the success of
\* the report is the success of synthesis, and a successful report counts 0
\* executed repositories.
C5_SandboxFailureNotFatal ==
  \A i \in 1..Len(stage_results) :
    invoked[i] = "CodeExecutionAgent" /\ Failed(i) =>
      /\ SynthesisInvokedWith(i + 1, FALSE, TRUE)
      /\ pc \in {"await_synthesis", "returned"}
      /\ pc = "returned" =>
           /\ Answered(i + 1)
           /\ report.success = get(stage_results[i + 1], "success", FALSE)
           /\ report.success => report.metadata.repositories_executed = 0

\* the sandbox stage timed out and the run still succeeded
C5_Witness ==
  /\ ReturnedSuccess
  /\ Len(stage_results) = 4
  /\ Failed(3)
  /\ stage_results[3].error = "Agent timed out after 120 seconds"
  /\ report.metadata.repositories_executed = 0

\* C6: every stage invocation of process_bookmark runs under a deadline, on
\* the full path and on both short-circuit branches.
C6_EveryStageHasDeadline ==
  in_progress # {} => awaited.timeout > 0

\* C7: process_bookmark returns a report with a success field for every
\* bookmark and configuration; no exception leaves it.
C7_AlwaysReturnsReport ==
  /\ pc # "raised"
  /\ pc = "returned" => HasKey(report, "success")

\* the report holds the given StageResult among its per-stage results
ReportCarries(result) ==
  /\ HasKey(report, "pipeline_results")
  /\ HasKey(report.pipeline_results, "agent_results")
  /\ ~IsEmptyDict(report.pipeline_results.agent_results)
  /\ \E k \in DOMAIN report.pipeline_results.agent_results :
       report.pipeline_results.agent_results[k] = result

\* C8: a report with success = false returned because a mandatory stage
\* failed or timed out carries that stage's StageResult, with the name of
\* the stage and its error message, on the full path and on both
\* short-circuit branches.
C8_FailureReportNamesStage ==
  \A i \in 1..Len(stage_results) :
    pc = "returned" /\ Mandatory(invoked[i]) /\ Failed(i) =>
      /\ ~report.success
      /\ HasKey(stage_results[i], "agent")
      /\ stage_results[i].agent = invoked[i]
      /\ HasKey(stage_results[i], "error")
      /\ ReportCarries(stage_results[i])

\* the number of times an agent was invoked
Invocations(agent_name) ==
  Cardinality({i \in 1..Len(invoked) : invoked[i] = agent_name})

\* C9: within one run every stage is invoked at most once, also when it
\* fails or times out, and a run that returns success = true has invoked
\* synthesis exactly once.
C9_EachStageAtMostOnce ==
  /\ \A a \in Range(invoked) : Invocations(a) = 1
  /\ ReturnedSuccess => Invocations("ContentSynthesisAgent") = 1

\* a run whose sandbox stage reported a failure has returned success
C9_Witness ==
  /\ ReturnedSuccess
  /\ \E i \in 1..Len(stage_results) :
       /\ Failed(i)
       /\ stage_results[i].error = "execution error"
  /\ Invocations("CodeExecutionAgent") = 1

\* C10: every report with success = true carries the bookmark id, one
\* StageResult and one elapsed time per stage that ran, the total elapsed
\* time, the synthesis fields, the numbers of repositories discovered and
\* executed and the relevance score, on the full path and on both
\* short-circuit branches.
C10_SuccessReportComplete ==
  ReturnedSuccess =>
    /\ report.bookmark_id = bookmark_data.post_id
    /\ \A f \in {"title", "content", "actionable_items", "tags"} : HasKey(report, f)
    /\ \A f \in {"pipeline_timing", "total_processing_time", "repositories_discovered",
                 "repositories_executed", "github_relevance_score"} :
         HasKey(report.metadata, f)
    /\ \A i \in 1..Len(invoked) : ReportCarries(stage_results[i])
    /\ Cardinality(DOMAIN report.metadata.pipeline_timing) = Len(invoked)

(***************************************************************************)
(* Properties of the classifier.                                           *)
(***************************************************************************)
\* the classifier was called and has returned
Classified == operation = "ContentAnalysisAgent.process"

\* ... with success = true
ClassifiedSuccess == Classified /\ returned.success

\* the text the classifier was given, in tweet_text or in the bookmark
GivenText ==
  LET given == get(arguments.input_data, "tweet_text", <<>>)
  IN  IF given # <<>> THEN given
      ELSE get(get(get(arguments.input_data, "bookmark", EmptyDict),
                   "tweet_details", EmptyDict), "text", <<>>)

\* C13: the classifier returns success = false if and only if the tweet
\* text is empty or missing; whatever the language model does for a
\* non-empty text, the stage returns success = true.
C13_FailsOnlyOnEmptyText ==
  Classified => (~returned.success <=> GivenText = <<>>)

\* x >= y
f_ge(x, y) == ~f_lt(x, y)

\* C14: the relevance score of a classified text lies in [0, 1], and its
\* priority is high if there is a direct URL or the score is > 0.7,
\* otherwise medium if the score is > 0.4, otherwise low.
C14_ScoreAndPriority ==
  ClassifiedSuccess =>
    LET score == returned.data.github_relevance_score
        urls  == returned.data.direct_github_urls
    IN  /\ f_ge(score, F0_0)
        /\ f_ge(F1_0, score)
        /\ returned.data.processing_priority =
             IF urls # <<>> \/ f_gt(score, F0_7) THEN "high"
             ELSE IF f_gt(score, F0_4) THEN "medium"
             ELSE "low"

\* a text without URL got a score above 0.7 and with it the priority high
C14_Witness ==
  /\ ClassifiedSuccess
  /\ returned.data.direct_github_urls = <<>>
  /\ f_gt(returned.data.github_relevance_score, F0_7)
  /\ f_lt(returned.data.github_relevance_score, F1_0)
  /\ returned.data.processing_priority = "high"

\* the URL without its scheme
without_scheme(url) ==
  IF startswith(url, <<"h", "t", "t", "p", "s", ":", "/", "/">>) THEN SubSeq(url, 9, Len(url))
  ELSE IF startswith(url, <<"h", "t", "t", "p", ":", "/", "/">>) THEN SubSeq(url, 8, Len(url))
  ELSE url

\* C15: the direct-URL list has one entry per repository URL, whatever the
\* scheme it is written with (https://, http:// or none); the text
\* 'https://github.com/foo/bar' gives exactly that one entry; and a text
\* with a direct URL has a relevance score >= 0.8.
C15_DirectUrlsDeduplicated ==
  ClassifiedSuccess =>
    LET urls == returned.data.direct_github_urls
    IN  /\ \A i, j \in 1..Len(urls) :
             i # j => without_scheme(urls[i]) # without_scheme(urls[j])
        /\ GivenText = TextUrl => urls = <<TextUrl>>
        /\ urls # <<>> => f_ge(returned.data.github_relevance_score, F0_8)

\* the content types a tweet is classified into
ContentTypes ==
  {<<"p", "r", "o", "j", "e", "c", "t", "_", "a", "n", "n", "o", "u", "n", "c", "e", "m", "e", "n", "t">>, <<"t", "u", "t", "o", "r", "i", "a", "l">>, <<"c", "o", "d", "e", "_", "s", "h", "a", "r", "i", "n", "g">>, <<"d", "i", "s", "c", "u", "s", "s", "i", "o", "n">>,
   <<"s", "h", "o", "w", "c", "a", "s", "e">>, <<"p", "r", "o", "b", "l", "e", "m", "_", "s", "o", "l", "v", "i", "n", "g">>, <<"r", "e", "s", "o", "u", "r", "c", "e", "_", "s", "h", "a", "r", "i", "n", "g">>, <<"o", "t", "h", "e", "r">>}

\* what synthesis makes of a bookmark with the given classification and no
\* repository
SynthesisOf(analysis) ==
  content_synthesis_process(
    [original_bookmark |-> Bookmark("post_1", analysis.tweet_text),
     content_analysis |-> analysis,
     github_discovery |-> [discovered_repositories |-> <<>>],
     code_execution |-> no_execution,
     synthesis_style |-> "detailed"],
    FALSE, clock)

\* C16: whichever path classified the content type (language model or
\* keyword fallback), the classification has a content type of the
\* enumerated set and a context string, and synthesis makes a title of it.
C16_SameSchemaOnBothPaths ==
  ClassifiedSuccess =>
    /\ returned.data.content_type \in ContentTypes
    /\ ~IsNoneStr(returned.data.content_context)
    /\ SynthesisOf(returned.data).success
    /\ SynthesisOf(returned.data).data.title # <<>>

(***************************************************************************)
(* Properties of the resolver.                                             *)
(***************************************************************************)
\* the resolver was called and has returned
Resolved == operation = "GitHubDiscoveryAgent.process"

\* ... with success = true
ResolvedSuccess == Resolved /\ returned.success

\* the list the resolver returned
Ranked == returned.data.discovered_repositories

\* what the call found, in the order of discovery, and the requests it sent
Discovered ==
  discover(arguments.input_data, arguments.hosting, arguments.llm, arguments.now)

\* every suggestion of the model names an owner and a repository
SuggestionsWellFormed ==
  arguments.llm.kind = "json" /\ arguments.llm.is_list =>
    \A i \in 1..Len(arguments.llm.value) :
      HasKey(arguments.llm.value[i], "owner") /\ HasKey(arguments.llm.value[i], "repo")

\* a repository object with a description and a language
Usable(repo) == ~IsNoneStr(repo.description) /\ ~IsNoneStr(repo.language)

\* the repository is in the list the resolver returned
Returned(full_name) == \E k \in 1..Len(Ranked) : Ranked[k].full_name = full_name

\* C17: a failure concerning one item (a request that fails or is answered
\* not-found, a repository object of a listing that cannot be scored)
\* removes only that item: the stage returns success = true, and every
\* repository that was looked up and found, and every relevant repository of
\* a listing that was answered, is returned if it is usable itself.
C17_ItemFailureRemovesOnlyItem ==
  Resolved /\ SuggestionsWellFormed =>
    /\ returned.success
    /\ returned.data.total_found = Len(Ranked)
    /\ \A i \in 1..Len(Discovered.requests) :
         LET request  == Discovered.requests[i]
             response == github_get(arguments.hosting, request, i)
             listed   == IF request.endpoint = "users" THEN response.json ELSE <<>>
         IN  ~response.raised /\ response.status_code = 200 =>
               /\ request.endpoint = "repos" /\ Usable(response.json) =>
                    Returned(response.json.full_name)
               /\ \A k \in 1..Len(listed) :
                    /\ Usable(listed[k])
                    /\ f_gt(calculate_repository_relevance(
                              listed[k], arguments.input_data.content_analysis,
                              today_of(arguments.now)), F0_3)
                    => Returned(listed[k].full_name)

\* confidence + min(stars/1000, 0.2) + (0.1 if active else 0) of an entry
score_of(repo) ==
  f_add(f_add(repo.confidence_score,
              f_min(f_div_int(repo.stargazers_count, 1000), F0_2)),
        IF repo.is_active THEN F0_1 ELSE F0_0)

\* the full names of a list of repositories
full_names(repos) == [i \in 1..Len(repos) |-> repos[i].full_name]

\* C18: the list the resolver returns is in non-increasing order of
\* confidence + min(stars/1000, 0.2) + (0.1 if active else 0), and the entry
\* at position i has rank i.
C18_SortedAndRanked ==
  ResolvedSuccess =>
    \A i \in 1..Len(Ranked) :
      /\ Ranked[i].rank = i
      /\ i < Len(Ranked) => f_ge(score_of(Ranked[i]), score_of(Ranked[i + 1]))

\* three repositories were returned, of different scores, in another order
\* than they were discovered in
C18_Witness ==
  /\ ResolvedSuccess
  /\ Len(Ranked) >= 3
  /\ \E i \in 1..(Len(Ranked) - 1) : f_gt(score_of(Ranked[i]), score_of(Ranked[i + 1]))
  /\ full_names(Ranked) # full_names(Discovered.repos)

\* C19: the ranking follows a fixed rule: the entries of equal score are
\* returned in the order they were discovered in.
C19_TiesInDiscoveryOrder ==
  ResolvedSuccess =>
    \A i \in 1..Len(Ranked) :
      LET s == score_of(Ranked[i])
      IN  full_names(SelectSeq(Ranked, LAMBDA r : score_of(r) = s))
            = full_names(SelectSeq(Discovered.repos, LAMBDA r : score_of(r) = s))

\* two different repositories of equal score were returned, and the sort
\* moved them before a repository discovered earlier
C19_Witness ==
  /\ ResolvedSuccess
  /\ \E i, j \in 1..Len(Ranked) :
       /\ i < j
       /\ score_of(Ranked[i]) = score_of(Ranked[j])
       /\ Ranked[i].full_name # Ranked[j].full_name
  /\ full_names(Ranked) # full_names(Discovered.repos)

\* the classification the resolver was called with, and its strategy
Analysis == arguments.input_data.content_analysis

Strategy == arguments.input_data.discovery_strategy

\* the model was asked to guess
ModelAsked == Discovered.asked # <<>>

\* the number of requests sent before the guessing step
BeforeGuesses ==
  IF ModelAsked THEN Discovered.asked[1].after ELSE Len(Discovered.requests)

\* the request is the validation of owner/repo
Validates(request, owner, repo) ==
  request.endpoint = "repos" /\ request.owner = owner /\ request.repo = repo

\* the request is the listing of the repositories of username
Lists(request, username) ==
  request.endpoint = "users" /\ request.username = username

\* the request is the one the mention calls for
LooksUp(request, mention) ==
  IF mention.type = "repository"
    THEN Validates(request, mention.owner, mention.repo)
    ELSE Lists(request, mention.username)

\* C26: the requests of a discovery are those of the direct URLs in their
\* order, then one per mention in the listed order, then at most the
\* listing of the author's repositories, then the validations of the
\* model's guesses; and the model is asked only under the aggressive
\* strategy with no repository found by the steps before.
C26_StepsInFixedOrder ==
  Resolved =>
    LET discovered == Discovered
        log      == discovered.requests
        asked    == discovered.asked
        guesses  == IF asked # <<>> THEN asked[1].after ELSE Len(log)
        urls     == Analysis.direct_github_urls
        mentions == Analysis.github_mentions
        author   == Analysis.author_github_candidate
        nd       == Len(urls)
        nm       == Len(mentions)
    IN  /\ nd + nm <= guesses
        /\ guesses <= nd + nm + 1
        /\ \A i \in 1..nd :
             /\ log[i].endpoint = "repos"
             /\ contains(urls[i], slash(log[i].owner, log[i].repo))
        /\ \A i \in 1..nm : LooksUp(log[nd + i], mentions[i])
        /\ guesses = nd + nm + 1 => Lists(log[guesses], author)
        /\ \A i \in (guesses + 1)..Len(log) :
             Validates(log[i], arguments.llm.value[i - guesses].owner,
                       arguments.llm.value[i - guesses].repo)
        /\ asked # <<>> =>
             /\ Strategy = "aggressive"
             /\ asked[1].found = 0
             /\ \A k \in 1..Len(discovered.repos) :
                  \E i \in (guesses + 1)..Len(log) :
                    Validates(log[i], discovered.repos[k].owner.login,
                              discovered.repos[k].name)
        /\ Strategy = "conservative" => asked = <<>>

\* under the aggressive strategy a mention and the author's account were
\* looked up in this order and gave nothing, then the model was asked and
\* one of its two guesses was found
C26_Witness ==
  /\ Resolved
  /\ Strategy = "aggressive"
  /\ Len(Analysis.github_mentions) = 1
  /\ returned.success
  /\ Len(Ranked) = 1
  /\ LET discovered == Discovered
     IN  /\ discovered.asked # <<>>
         /\ discovered.asked[1].after = 2
         /\ Len(discovered.requests) = 4

\* C30: at most 3 guesses of the model are submitted to the hosting
\* collaborator for validation.
C30_AtMostThreeGuesses ==
  Resolved => Len(Discovered.requests) - BeforeGuesses <= 3

\* the reply of the model cannot be used as the list of owner/repo pairs
\* asked for
MalformedSuggestions ==
  \/ arguments.llm.kind = "not_json"
  \/ arguments.llm.kind = "json" /\ ~arguments.llm.is_list
  \/ arguments.llm.kind = "json" /\ ~SuggestionsWellFormed

\* C27: a reply of the model that cannot be used is treated like an
\* unavailable model: the resolver returns what it returns when no model is
\* configured, with success = true.
C27_MalformedReplyIsUnavailable ==
  Resolved /\ MalformedSuggestions =>
    /\ returned.success
    /\ returned = github_discovery_process(arguments.input_data, arguments.hosting,
                                           [kind |-> "unavailable"], arguments.now)

(***************************************************************************)
(* Properties of the sandbox agent.                                        *)
(***************************************************************************)
\* the selection was called and has returned
Selected == operation = "CodeExecutionAgent._select_repositories_for_execution"

\* C20: under the strategy quick every selected repository has a
\* confidence > 0.7 and a complexity < 0.5, one without complexity score
\* being never selected; under thorough every selected repository has a
\* confidence > 0.5.
C20_SelectionThresholds ==
  Selected =>
    \A i \in 1..Len(returned) :
      /\ arguments.strategy = "quick" =>
           /\ HasKey(returned[i], "confidence_score")
           /\ f_gt(returned[i].confidence_score, F0_7)
           /\ HasKey(returned[i], "complexity_score")
           /\ f_lt(returned[i].complexity_score, F0_5)
      /\ arguments.strategy = "thorough" =>
           /\ HasKey(returned[i], "confidence_score")
           /\ f_gt(returned[i].confidence_score, F0_5)

\* a quick selection passed over a confident repository without complexity
\* score and took the one after it
C20_Witness ==
  /\ Selected
  /\ arguments.strategy = "quick"
  /\ Len(arguments.repositories) = 2
  /\ ~HasKey(arguments.repositories[1], "complexity_score")
  /\ f_gt(arguments.repositories[1].confidence_score, F0_7)
  /\ returned = <<arguments.repositories[2]>>

\* sub is l with entries left out: the entries of sub are entries of l, in
\* the order they have in l
RECURSIVE IsSubsequence(_, _)
IsSubsequence(sub, l) ==
  IF sub = <<>> THEN TRUE
  ELSE IF l = <<>> THEN FALSE
  ELSE IF Head(sub) = Head(l) THEN IsSubsequence(Tail(sub), Tail(l))
  ELSE IsSubsequence(sub, Tail(l))

\* the number of repositories a bound allows: none for a bound below 1
Allowed(max_repos) == IF max_repos < 0 THEN 0 ELSE max_repos

\* C29: the selection has at most max_repositories entries (none for a
\* bound of 0 or below) and at most 2 under quick, keeps the order of the
\* ranked list, and under an unknown strategy is the first max_repositories
\* entries of the list.
C29_SelectionCapped ==
  Selected =>
    /\ Len(returned) <= Allowed(arguments.max_repos)
    /\ arguments.strategy = "quick" => Len(returned) <= 2
    /\ IsSubsequence(returned, arguments.repositories)
    /\ arguments.strategy \notin {"quick", "thorough"} =>
         returned = head(arguments.repositories, Allowed(arguments.max_repos))

(***************************************************************************)
(* Properties of the end-to-end run of test_pipeline.                      *)
(***************************************************************************)
\* no reply of the model collaborator, or one with the fields asked for
WellFormedReply(llm) == llm.kind = "json" => HasKey(llm.value, "type")

\* the end-to-end bookmark was processed with the end-to-end configuration,
\* every stage answered within its deadline, the model collaborator, where
\* it replied, replied with the fields asked for, and synthesis raised nothing
EndToEndRun ==
  /\ pc \in {"returned", "raised"}
  /\ bookmark_data = Bookmark("post_1", TextEndToEnd)
  /\ pipeline_config = EndToEndConfig
  /\ exchanges.expired = <<>>
  /\ \A i \in 1..Len(exchanges.model) : WellFormedReply(exchanges.model[i])
  /\ \A i \in 1..Len(exchanges.synthesis) : ~exchanges.synthesis[i]

Coroutines == {Coroutine} \cup Range(tasks)

\* what a report shows: its success, the branch that made it, the stage
\* results it carries, its title and its tags
Shown(r) ==
  [success |-> r.success,
   branch |-> IF ~r.success THEN r.error
              ELSE IF HasKey(r.metadata, "processing_type")
                THEN r.metadata.processing_type
              ELSE "full",
   stages |-> IF HasKey(r, "pipeline_results")
                THEN get(r.pipeline_results, "agent_results", EmptyDict)
                ELSE EmptyDict,
   title |-> IF r.success THEN r.title ELSE NoneStr,
   tags |-> IF r.success THEN r.tags ELSE <<>>]

\* the stage results under the names of their stages
StagesOf(names, answers) ==
  [n \in Range(names) |-> answers[CHOOSE i \in 1..Len(names) : names[i] = n]]

\* what the report of a call shows when the call runs alone and its stages
\* give 'answers', in the order they are awaited
ShownAlone(answers) ==
  LET ok(i) == get(answers[i], "success", FALSE)
      failure(message, names) ==
        [success |-> FALSE, branch |-> message,
         stages |-> IF names = <<>> THEN EmptyDict ELSE StagesOf(names, answers),
         title |-> NoneStr, tags |-> <<>>]
      done(branch, names, synthesis) ==
        [success |-> TRUE, branch |-> branch,
         stages |-> IF names = <<>> THEN EmptyDict ELSE StagesOf(names, answers),
         title |-> synthesis.data.title, tags |-> synthesis.data.tags]
      full == <<"content_analysis", "github_discovery", "code_execution",
                "content_synthesis">>
  IN  IF ~ok(1) THEN failure("Content analysis failed", <<"content_analysis">>)
      ELSE IF low_github_relevance(answers[1].data)
        THEN IF ok(2) THEN done("non_github_content", <<>>, answers[2])
             ELSE failure("Synthesis failed for non-GitHub content", <<>>)
      ELSE IF ~ok(2)
        THEN failure("GitHub discovery failed", <<"content_analysis", "github_discovery">>)
      ELSE IF no_repositories(get(answers[2].data, "discovered_repositories", <<>>))
        THEN IF ok(3) THEN done("github_analysis_only", <<>>, answers[3])
             ELSE failure("Synthesis failed for GitHub analysis", <<>>)
      ELSE IF ok(4) THEN done("full", full, answers[4])
      ELSE failure("Content synthesis failed", full)

Analyzed == operation = "ContentRouter.analyze_url"

\* the host a URL names: what stands between '//' and the next '/', '?' or
\* '#', in lower case; <<>> for a URL without '//'
HostOf(url) ==
  LET slashes == {i \in 1..Len(url) : starts_at(url, i, <<"/", "/">>)}
      start   == 2 + CHOOSE i \in slashes : \A j \in slashes : i <= j
  IN  IF slashes = {} THEN <<>>
      ELSE lower(SubSeq(url, start, find_any(url, start, {"/", "?", "#"}) - 1))

\* the host is the site or a subdomain of it
OnSite(host, site) ==
  \/ host = site
  \/ /\ Len(host) > Len(site)
     /\ from_pos(host, Len(host) - Len(site)) = <<".">> \o site

\* the host is on one of the sites
OnOneOf(host, sites) == \E site \in sites : OnSite(host, site)

\* the content type of the site a host is on
TypeOfHost(host) ==
  IF OnOneOf(host, {<<"g", "i", "t", "h", "u", "b", ".", "c", "o", "m">>}) THEN "github"
  ELSE IF OnOneOf(host, {<<"y", "o", "u", "t", "u", "b", "e", ".", "c", "o", "m">>, <<"y", "o", "u", "t", "u", ".", "b", "e">>}) THEN "youtube"
  ELSE IF OnOneOf(host, {<<"t", "w", "i", "t", "t", "e", "r", ".", "c", "o", "m">>, <<"x", ".", "c", "o", "m">>}) THEN "twitter"
  ELSE IF OnOneOf(host, {<<"m", "e", "d", "i", "u", "m", ".", "c", "o", "m">>, <<"d", "e", "v", ".", "t", "o">>, <<"h", "a", "s", "h", "n", "o", "d", "e", ".", "d", "e", "v">>}) THEN "article"
  ELSE IF OnOneOf(host, {<<"a", "r", "x", "i", "v", ".", "o", "r", "g">>}) THEN "paper"
  ELSE IF OnOneOf(host, {<<"r", "e", "d", "d", "i", "t", ".", "c", "o", "m">>}) THEN "reddit"
  ELSE "general"

\* C25: analyze_url gives the content type of the site the host of the URL
\* is on, general for a host on none of the sites, and the pipeline
\* github_codespace for github, youtube_transcription for youtube and
\* notion_save for every other type.
C25_ClassifiedBySite ==
  Analyzed /\ returned.success =>
    /\ returned.content_type = TypeOfHost(HostOf(arguments.url))
    /\ returned.processing_pipeline =
         IF returned.content_type = "github" THEN "github_codespace"
         ELSE IF returned.content_type = "youtube" THEN "youtube_transcription"
         ELSE "notion_save"

(***************************************************************************)
(* Properties of the sandbox runner (SpecSandbox).                         *)
(***************************************************************************)
Executed == operation = "CodeExecutionAgent.process"

\* process returned (it was not cancelled)
StageReturned == Executed /\ ~IsCancelled(returned.value)

\* the repositories process selected
SelectedRepos ==
  select_repositories_for_execution(
    arguments.input_data.github_discovery.discovered_repositories,
    arguments.input_data.execution_strategy, arguments.input_data.max_repositories)

\* the execution results process returned
ExecutionResults ==
  get(get(returned.value, "data", EmptyDict), "execution_results", <<>>)

\* a result without the identity of its sandbox
SandboxApart(result) == [k \in (DOMAIN result) \ {"sandbox_id"} |-> result[k]]

\* what the i-th selected repository yields when it is the only one
ResultAlone(i) ==
  execute_from(<<SelectedRepos[i]>>, 1, arguments.input_data.execution_strategy,
               arguments.e2b_api_key, <<arguments.sandboxes[i]>>, arguments.llm,
               [results |-> <<>>, events |-> <<>>]).results[1]

\* C21: when the sandbox stage returns, it returns success=true with one
\* execution result per selected repository, in selection order, and each
\* result is what its repository yields on its own, whatever happened to
\* the other repositories.
C21_OneResultPerRepository ==
  StageReturned =>
    /\ returned.value.success
    /\ Len(ExecutionResults) = Len(SelectedRepos)
    /\ \A i \in 1..Len(SelectedRepos) :
         /\ ExecutionResults[i].repository_metadata.full_name = SelectedRepos[i].full_name
         /\ SandboxApart(ExecutionResults[i]) = SandboxApart(ResultAlone(i))

\* C22: every sandbox the stage creates is closed before the next one is
\* created and before the stage ends, however the execution ended; no two
\* executions share a sandbox and no execution creates more than one.
C22_SandboxesClosed ==
  Executed =>
    LET events == returned.events
        n      == Len(events) \div 2
    IN  /\ Len(events) = 2 * n
        /\ n <= Len(SelectedRepos)
        /\ \A k \in 1..n :
             /\ events[2 * k - 1][1] = "create"
             /\ events[2 * k] = <<"close", events[2 * k - 1][2]>>
             /\ \A j \in 1..n : events[2 * j - 1][2] = events[2 * k - 1][2] => j = k

\* the second execution was cancelled in its sandbox, after the first had
\* used and closed its own
C22_Witness ==
  /\ Executed
  /\ IsCancelled(returned.value)
  /\ returned.events = <<<<"create", 1>>, <<"close", 1>>, <<"create", 2>>, <<"close", 2>>>>

\* C28: every execution result with success=false carries
\* execution_skipped=true.
C28_FailuresAreSkipped ==
  StageReturned =>
    \A i \in 1..Len(ExecutionResults) :
       ~ExecutionResults[i].success => get(ExecutionResults[i], "execution_skipped", FALSE)

(***************************************************************************)
(* Properties of the synthesizer (SpecSynthesis).                          *)
(***************************************************************************)
Synthesized == operation = "ContentSynthesisAgent.process"

\* the candidate tags of the call, and the tag list generated from its
\* content analysis, discovery data and execution data
CandidateTags ==
  tag_set(arguments.input_data.content_analysis, arguments.input_data.github_discovery,
          arguments.input_data.code_execution)

GeneratedTags ==
  generate_tags(arguments.input_data.content_analysis, arguments.input_data.github_discovery,
                arguments.input_data.code_execution)

\* C23: for every content analysis, discovery data and execution data, the
\* empty ones included, the generated tag list has at most 15 entries and
\* is in strictly ascending lexicographic order (sorted, without
\* duplicates); it is the tag list of a successful synthesis.
C23_TagsSortedAndLimited ==
  Synthesized =>
    LET tags == GeneratedTags
    IN  /\ Len(tags) <= 15
        /\ \A i \in 1..(Len(tags) - 1) : text_lt(tags[i], tags[i + 1])
        /\ Range(tags) \subseteq CandidateTags
        /\ returned.success => returned.data.tags = tags

\* sixteen candidate tags gave a list of fifteen
C23_Witness ==
  /\ Synthesized
  /\ returned.success
  /\ Cardinality(CandidateTags) > 15
  /\ Len(returned.data.tags) = 15

\* C24: for a well-formed bookmark and every content analysis, discovery
\* data and execution data the stages before it can produce, synthesis
\* returns success = true with a title, a content, tags and actionable
\* items.
C24_SynthesisSucceeds ==
  Synthesized =>
    /\ returned.success
    /\ {"title", "synthesized_content", "tags", "actionable_items"}
         \subseteq DOMAIN returned.data

\* the execution results handed to the synthesizer
HandedResults == get(arguments.input_data.code_execution, "execution_results", <<>>)

\* an execution of the run succeeded
SomeExecutionSucceeded ==
  \E i \in 1..Len(HandedResults) : get(HandedResults[i], "success", FALSE)

\* C31: the candidate tags (the tags before the cut to 15) hold
\* "executable" exactly when an execution of the run succeeded
C31_ExecutableIffSucceeded ==
  Synthesized => (<<"e", "x", "e", "c", "u", "t", "a", "b", "l", "e">> \in CandidateTags <=> SomeExecutionSucceeded)

\* the actionable items of a successful synthesis
Items == returned.data.actionable_items

\* the place of an item in the order of precedence, told by the pictograph
\* that opens it
ItemRank(item) ==
  CASE item[1] \in {"[explore]", "[investigate]"} -> 1
    [] item[1] = "[learn]" -> 2
    [] item[1] = "[compare]" -> 3
    [] item[1] = "[follow]" -> 4
    [] item[1] = "[document]" -> 5

\* the items of the top repositories, in the order of their rank
RepositoryItemsDue ==
  LET top == returned.data.github_summary.top_repositories
      RECURSIVE due(_)
      due(i) == IF i > Len(top) THEN <<>> ELSE repository_item(top[i]) \o due(i + 1)
  IN  due(1)

\* how many items of each place the data of the synthesis call for
ItemsDue(rank) ==
  LET insights     == returned.data.execution_summary
      technologies == head(insights.technologies_discovered, 2)
  IN  CASE rank = 1 -> Len(RepositoryItemsDue)
        [] rank = 2 -> Cardinality({i \in 1..Len(technologies) :
                                      technologies[i] \notin {<<"u", "n", "k", "n", "o", "w", "n">>, <<>>}})
        [] rank = 3 -> IF insights.successful_count > 1 THEN 1 ELSE 0
        [] rank = 4 -> IF follows_up(returned.data.tweet_info, returned.data.github_summary)
                         THEN 1 ELSE 0
        [] rank = 5 -> IF insights.key_learnings # <<>> THEN 1 ELSE 0

\* how many items of a place the list holds
ItemsAt(rank) == Cardinality({i \in 1..Len(Items) : ItemRank(Items[i]) = rank})

\* C32: the list of actionable items has at most 6 items, in the order of
\* precedence (repository items in rank order, at most 2 technology items,
\* comparison, follow-up, documentation), and an item that is due is
\* missing only when the list is full and holds no item of a later place
C32_ItemsInPrecedenceOrder ==
  Synthesized /\ returned.success =>
    /\ Len(Items) <= 6
    /\ \A i \in 1..(Len(Items) - 1) : ItemRank(Items[i]) <= ItemRank(Items[i + 1])
    /\ ItemsAt(2) <= 2
    /\ ItemsAt(1) <= Len(RepositoryItemsDue)
    /\ \A i \in 1..ItemsAt(1) : Items[i] = RepositoryItemsDue[i]
    /\ \A rank \in 1..5 :
         /\ ItemsAt(rank) <= ItemsDue(rank)
         /\ ItemsAt(rank) < ItemsDue(rank) =>
              /\ Len(Items) = 6
              /\ \A i \in 1..Len(Items) : ItemRank(Items[i]) <= rank

\* more than 6 items are due and the list holds the first 6
C32_Witness ==
  /\ Synthesized
  /\ returned.success
  /\ ItemsDue(1) + ItemsDue(2) + ItemsDue(3) + ItemsDue(4) + ItemsDue(5) > 6
  /\ Len(Items) = 6

\* the top repositories of a successful synthesis
TopRepositories == returned.data.github_summary.top_repositories

\* an execution result, successful or failed, exists for the repository
HasExecutionResult(repo) ==
  \E i \in 1..Len(HandedResults) :
     get(get(HandedResults[i], "repository_metadata", EmptyDict), "full_name", NoneStr)
       = repo.full_name

\* the list of items holds the 'investigate' item of the repository
Investigated(repo) ==
  \E i \in 1..Len(Items) :
     /\ Items[i][1] = "[investigate]"
     /\ <<Items[i]>> = repository_item(repo)

\* C33: a top repository gets the 'investigate' item only if its confidence
\* is above 0.8 and no execution result, successful or failed, exists for it
C33_InvestigateOnlyIfNotExecuted ==
  Synthesized /\ returned.success =>
    \A i \in 1..Len(TopRepositories) :
       Investigated(TopRepositories[i]) =>
         /\ f_gt(TopRepositories[i].confidence_score, F0_8)
         /\ ~HasExecutionResult(TopRepositories[i])

(***************************************************************************)
(* Further properties of the resolver (SpecResolver).                      *)
(***************************************************************************)
\* C34: the list of repositories returned by the resolver holds no two
\* entries with the same full name
C34_NoDuplicateRepositories ==
  ResolvedSuccess =>
    LET repos == returned.data.discovered_repositories
    IN  \A i, j \in 1..Len(repos) : repos[i].full_name = repos[j].full_name => i = j

(***************************************************************************)
(* Further properties of process_bookmark (Spec).                          *)
(***************************************************************************)
\* classification succeeded and found a direct URL
DirectUrlFound ==
  /\ Succeeded(1)
  /\ stage_results[1].data.direct_github_urls # <<>>

\* the run has passed the branch test that follows classification
PastBranchTest == Succeeded(1) /\ Len(invoked) >= 2

\* C35: after a classification that found a direct URL the resolution stage
\* is invoked and the non_github_content branch is not taken; the branch is
\* taken exactly when the score is below 0.3, at which no discovery is
\* required
C35_BranchExactlyBelowThreshold ==
  /\ DirectUrlFound =>
       /\ ~ReportOfBranch("non_github_content")
       /\ Len(invoked) >= 2 => invoked[2] = "GitHubDiscoveryAgent"
  /\ PastBranchTest =>
       (invoked[2] = "ContentSynthesisAgent"
          <=> f_lt(stage_results[1].data.github_relevance_score, F0_3))
  /\ Succeeded(1) /\ f_lt(stage_results[1].data.github_relevance_score, F0_3) =>
       ~stage_results[1].data.requires_github_discovery

\* a direct URL was found and the resolution stage was invoked next
C35_Witness ==
  /\ DirectUrlFound
  /\ Len(invoked) >= 2
  /\ invoked[2] = "GitHubDiscoveryAgent"

(***************************************************************************)
(* Properties of the router's process_bookmark (SpecRouter).               *)
(***************************************************************************)
\* the status of the job a call created
JobStatus(call) == jobs[call.job_id].status

\* a call has returned after creating a job
ReturnedWithJob(call) == call.pc = "returned" /\ call.job_id # 0

\* the moves of the status of a job
StatusStep(before, after) ==
  \/ after = before
  \/ before = "pending" /\ after \in {"processing", "completed", "failed"}
  \/ before = "processing" /\ after \in {"completed", "failed"}

\* C36: a job created by process_bookmark is completed or failed when the
\* call has returned, it is pending or processing while the call awaits,
\* and its status only moves from pending to processing to completed or
\* failed, never out of completed or failed
C36_JobsEndCompletedOrFailed ==
  /\ [](\A c \in 1..Len(router_calls) :
          /\ ReturnedWithJob(router_calls[c]) =>
               JobStatus(router_calls[c]) \in {"completed", "failed"}
          /\ router_calls[c].pc = "fetching" => JobStatus(router_calls[c]) = "pending"
          /\ router_calls[c].pc = "processing" => JobStatus(router_calls[c]) = "processing")
  /\ [][/\ Len(jobs') >= Len(jobs)
        /\ \A j \in 1..Len(jobs) : StatusStep(jobs[j].status, jobs'[j].status)]_vars

\* a call has returned whose processor raised, and its job is failed
C36_Witness ==
  \E c \in 1..Len(router_calls) :
     /\ ReturnedWithJob(router_calls[c])
     /\ router_calls[c].processor # "none"
     /\ JobStatus(router_calls[c]) = "failed"

\* the store holds a completed job of the bookmark
CompletedJobOf(bookmark_id) ==
  \E j \in 1..Len(jobs) : jobs[j].bookmark_id = bookmark_id /\ jobs[j].status = "completed"

\* C37: a call without force for a bookmark of which the store holds a
\* completed job returns without creating a job and without running a
\* processor, whatever other jobs of the bookmark the store holds; a call
\* with force creates a job
C37_CompletedJobIsNotReprocessed ==
  [][Len(router_calls') = Len(router_calls) + 1 =>
       LET call == router_calls'[Len(router_calls')]
       IN  IF call.force THEN Len(jobs') = Len(jobs) + 1 /\ call.job_id = Len(jobs')
           ELSE CompletedJobOf(call.bookmark_id) =>
                  /\ jobs' = jobs
                  /\ call.pc = "returned"
                  /\ call.job_id = 0
                  /\ call.processor = "none"]_vars

PopulatingCall(key) ==
  CHOOSE c \in 1..Len(fetch_calls) :
    /\ fetch_calls[c].key = key
    /\ fetch_calls[c].stored > 0
    /\ \A d \in 1..Len(fetch_calls) :
         fetch_calls[d].key = key => fetch_calls[d].stored <= fetch_calls[c].stored

\* a call has just been answered from the cache
AnsweredFromCache ==
  /\ Len(fetch_calls') = Len(fetch_calls) + 1
  /\ fetch_calls'[Len(fetch_calls')].hit

\* C39: a call of fetch_bookmarks answered from the cache returns the result
\* the call that populated the cache returned for the same limit and cursor,
\* and a fetch that fails stores nothing in the cache
C39_CacheIsTransparent ==
  /\ [][AnsweredFromCache =>
          LET call == fetch_calls'[Len(fetch_calls')]
          IN  call.result = fetch_calls[PopulatingCall(call.key)].result]_vars
  /\ [][\A c \in 1..Len(fetch_calls) :
          (fetch_calls[c].pc = "fetching" /\ fetch_calls'[c].pc = "returned"
           /\ ~fetch_calls'[c].result.success) => cache' = cache]_vars
====
